---- MODULE Spec2Model ----
(***************************************************************************)
(* A model of the decision pipeline of rag-doc-analyzer: the Audit Trail   *)
(* (audit_trail.py), the Cache Manager (cache_manager.py), the Multi-Hop   *)
(* Reasoner (multi_hop_reasoner.py), the Clause Extractor                  *)
(* (clause_extractor.py), query validation (enhanced_query_processor.py)   *)
(* and the orchestration QAChain.run (qa_chain.py).                        *)
(*                                                                         *)
(* Every handler is one atomic action.  Time is the wall clock             *)
(* datetime.now() in seconds.  Each component has its own specification    *)
(* (SpecAudit, SpecSanitize, SpecCache, ...); the variables a              *)
(* specification does not use keep their initial value.                    *)
(***************************************************************************)
EXTENDS Integers, Sequences, FiniteSets, TLC

VARIABLES
    now,               \* datetime.now(), seconds since construction
    audit_log,         \* AuditTrail.audit_log
    decision_history,  \* AuditTrail.decision_history
    activity_log,      \* AuditTrail.activity_log
    session_trails,    \* AuditTrail.session_trails (a dict: its DOMAIN are the keys)
    calls,             \* number of log_* calls made so far (the uuid4 source)
    auditRet,          \* the last log_* call: its name, session and return value, whether
                       \* an exception was raised inside it and whether that reached the caller
    written,           \* history: every entry ever appended to audit_log, in order
    cache,             \* CacheManager: category -> its dict, as the sequence of entries in insertion order
    cache_stats,       \* CacheManager.cache_stats
    cacheRet,          \* the last cache operation: name, arguments, time and return value
    cachePrev,         \* the cache operation before it
    focus,             \* the cache category this behaviour exercises
    steps,             \* steps taken so far, where a specification bounds them
    input,             \* the argument of the function a specification applies
    output,            \* its result, or NotRun before the function was applied
    chain_results,     \* MultiHopReasoner: the chain_results dict being filled, in insertion order
    runOut,            \* QAChain.run: what the last run returned
    threads,           \* the requests in flight on one AuditTrail: where each one is in
                       \* its log_* call, and its local variables
    request_counts,    \* APIEndpoints.request_counts: client address -> the times it holds
    admitted,          \* history: every request _check_rate_limit admitted, in order
    apiRet             \* the last _check_rate_limit call: client, time and return value

auditVars == <<audit_log, decision_history, activity_log, session_trails, calls, auditRet, written>>
cacheVars == <<cache, cache_stats, cacheRet, cachePrev, focus>>
fnVars == <<input, output, chain_results>>
apiVars == <<request_counts, admitted, apiRet>>
vars == <<now, auditVars, cacheVars, steps, fnVars, runOut, threads, apiVars>>

\* What the actions of one component leave alone.
nonAudit == <<cacheVars, steps, fnVars, runOut, threads, apiVars>>
nonCache == <<auditVars, fnVars, runOut, threads, apiVars>>
nonFn == <<now, auditVars, cacheVars, steps, runOut, threads, apiVars>>

-----------------------------------------------------------------------------
(***************************************************************************)
(* Python values, as far as _create_safe_dict tells them apart.            *)
(*   none / num / str : the scalars (str, int, float, bool, NoneType)      *)
(*   dict             : items is the sequence of <<key, value>> pairs      *)
(*   list             : items is the sequence of elements                  *)
(*   obj              : any other type; n is the length of str(obj)        *)
(*   strof            : the string str(of) cut to its first `cut`          *)
(*                      characters, followed by "..." when dots is TRUE    *)
(***************************************************************************)
PNone == [t |-> "none"]
PNum(i) == [t |-> "num", v |-> i]
PStr(s, n) == [t |-> "str", s |-> s, n |-> n]
PDict(items) == [t |-> "dict", items |-> items]
PList(items) == [t |-> "list", items |-> items]
PObj(s, n) == [t |-> "obj", s |-> s, n |-> n]

\* Python truthiness: None, 0, "", {} and [] are falsy.
Truthy(v) ==
    CASE v.t = "none" -> FALSE
      [] v.t = "num" -> v.v # 0
      [] v.t = "str" -> v.n > 0
      [] v.t = "strof" -> v.cut > 0
      [] v.t \in {"dict", "list"} -> Len(v.items) > 0
      [] OTHER -> TRUE

\* Dictionary keys.  A key that is not a str (an int, say) has no .lower().
NonStringKeys == {"<int 1>"}
KeyLen(k) ==
    CASE k = "passwords" -> 9
      [] k = "Passwords" -> 9
      [] k = "API_KEYS" -> 8
      [] k = "personal_data" -> 13
      [] k \in {"data", "note"} -> 4
      [] OTHER -> 6

\* str.lower() on the keys the model uses.
Lower(k) ==
    CASE k = "Passwords" -> "passwords"
      [] k = "API_KEYS" -> "api_keys"
      [] OTHER -> k

sensitive_fields == {"api_keys", "passwords", "personal_data"}
Redacted == PStr("[REDACTED]", 10)

SumSeq(f) ==
    LET RECURSIVE S(_)
        S(i) == IF i = 0 THEN 0 ELSE f[i] + S(i - 1)
    IN S(Len(f))

\* len(repr(v)): the number of characters v takes inside str() of a container.
RECURSIVE ReprLen(_)
ReprLen(v) ==
    CASE v.t = "none" -> 4
      [] v.t = "num" -> 1
      [] v.t = "str" -> v.n + 2
      [] v.t = "strof" -> v.cut + (IF v.dots THEN 3 ELSE 0) + 2
      [] v.t = "obj" -> v.n
      [] v.t = "list" ->
            2 + SumSeq([i \in 1..Len(v.items) |-> ReprLen(v.items[i])])
              + (IF Len(v.items) > 1 THEN 2 * (Len(v.items) - 1) ELSE 0)
      [] v.t = "dict" ->
            2 + SumSeq([i \in 1..Len(v.items) |->
                          KeyLen(v.items[i][1]) + 4 + ReprLen(v.items[i][2])])
              + (IF Len(v.items) > 1 THEN 2 * (Len(v.items) - 1) ELSE 0)

\* len(str(v)): a str is its own str(), everything else prints as its repr.
StrLen(v) == IF v.t = "str" THEN v.n ELSE ReprLen(v)

\* str(v)[:limit] + "..." if len(str(v)) > limit else str(v)
Stringify(v, limit) ==
    IF StrLen(v) > limit
    THEN [t |-> "strof", of |-> v, cut |-> limit, dots |-> TRUE]
    ELSE IF v.t = "str" THEN v
         ELSE [t |-> "strof", of |-> v, cut |-> StrLen(v), dots |-> FALSE]

ItemLimit == 100
DataLimit == 200

\* The outcome of a call that raised.
Raised == [t |-> "raised"]

\* The result of a function or a run that was not called yet.
NotRun == [t |-> "not run"]

\* One element of a list, as both list loops of _create_safe_dict treat it.
RECURSIVE CreateSafeDict(_)
SafeItem(item) ==
    IF item.t \in {"none", "num", "str"} THEN item
    ELSE IF item.t = "dict" THEN CreateSafeDict(item)
    ELSE Stringify(item, ItemLimit)

SafeList(items) ==
    LET out == [i \in 1..Len(items) |-> SafeItem(items[i])]
    IN IF \E i \in 1..Len(items) : out[i] = Raised THEN Raised ELSE PList(out)

\* One value of a dict, under its key.
SafeValue(key, value) ==
    IF key \in NonStringKeys THEN Raised
    ELSE IF Lower(key) \in sensitive_fields THEN Redacted
    ELSE IF value.t \in {"none", "num", "str"} THEN value
    ELSE IF value.t = "dict" THEN CreateSafeDict(value)
    ELSE IF value.t = "list" THEN SafeList(value.items)
    ELSE Stringify(value, ItemLimit)

\* AuditTrail._create_safe_dict
CreateSafeDict(data) ==
    IF data.t = "none" THEN PDict(<<>>)
    ELSE IF data.t = "dict" THEN
        LET out == [i \in 1..Len(data.items) |->
                        <<data.items[i][1], SafeValue(data.items[i][1], data.items[i][2])>>]
        IN IF \E i \in 1..Len(data.items) : out[i][2] = Raised THEN Raised ELSE PDict(out)
    ELSE IF data.t = "list" THEN SafeList(data.items)
    ELSE Stringify(data, DataLimit)

-----------------------------------------------------------------------------
(***************************************************************************)
(* The Audit Trail.                                                        *)
(***************************************************************************)
retention_days == 365
max_log_size == 2      \* audit_config["max_log_size"], scaled down from 10000
DaySeconds == 86400

\* dict.get(key, default) on a sanitized value; raises on anything but a dict.
DictHas(d, key) == \E i \in 1..Len(d.items) : d.items[i][1] = key
DictGet(d, key, default) ==
    IF d.t # "dict" THEN Raised
    ELSE IF DictHas(d, key)
         THEN d.items[CHOOSE i \in 1..Len(d.items) : d.items[i][1] = key][2]
         ELSE default

\* AuditTrail._create_query_summary: the parts it joins, or one of its two fixed texts.
SummaryFields == <<"age", "gender", "procedure", "location">>
CreateQuerySummary(query_context) ==
    LET parsed == DictGet(query_context, "parsed_entities", PDict(<<>>))
        present == SelectSeq(SummaryFields,
                       LAMBDA f : Truthy(DictGet(parsed, f, PNone)))
    IN IF parsed = Raised \/ parsed.t # "dict" THEN [kind |-> "Summary unavailable"]
       ELSE IF present = <<>> THEN [kind |-> "No details available"]
       ELSE [kind |-> "parts",
             parts |-> [i \in 1..Len(present) |->
                           <<present[i], DictGet(parsed, present[i], PNone)>>]]

\* entry["timestamp"] > cutoff_date, cutoff_date = now - retention_days
Fresh(entry, t) == entry.timestamp > t - retention_days * DaySeconds

\* self.audit_log[-max_log_size:]
LastN(log, n) == IF Len(log) > n THEN SubSeq(log, Len(log) - n + 1, Len(log)) ELSE log

\* AuditTrail._cleanup_old_entries, as the new value of the four collections.
CleanupOldEntries(al, dh, act, st, t) ==
    LET keep(log) == SelectSeq(log, LAMBDA e : Fresh(e, t))
        al1 == keep(al)
        alive == {s \in DOMAIN st : keep(st[s]) # <<>>}
    IN [audit_log |-> IF Len(al1) > max_log_size THEN LastN(al1, max_log_size) ELSE al1,
        decision_history |-> keep(dh),
        activity_log |-> keep(act),
        session_trails |-> [s \in alive |-> keep(st[s])]]

\* A session id that cannot be a dict key (a list, say): `in self.session_trails` raises.
UnhashableSession == "<list>"

\* A payload nested deeper than the interpreter's recursion limit (or containing
\* itself): _create_safe_dict raises RecursionError on it.
PTooDeep == [t |-> "toodeep"]

\* _create_safe_dict on any payload the model hands to a log_* method.
Sanitize(data) == IF data = PTooDeep THEN Raised ELSE CreateSafeDict(data)

\* if session_id not in self.session_trails: ... ; self.session_trails[session_id].append(e)
TrailAppend(st, session_id, e) ==
    [s \in DOMAIN st \cup {session_id} |->
        IF s = session_id
        THEN (IF s \in DOMAIN st THEN Append(st[s], e) ELSE <<e>>)
        ELSE st[s]]

NoneId == 0

\* The AuditTrail object: its four collections, the uuid source, the record of the
\* last call and the history of audit_log appends.
AuditState ==
    [audit_log |-> audit_log, decision_history |-> decision_history,
     activity_log |-> activity_log, session_trails |-> session_trails,
     calls |-> calls, auditRet |-> auditRet, written |-> written]

\* The collections of the object A become those of c.
WithCollections(A, c) ==
    [A EXCEPT !.audit_log = c.audit_log, !.decision_history = c.decision_history,
              !.activity_log = c.activity_log, !.session_trails = c.session_trails]

\* self._cleanup_old_entries() at time t on the object A
Cleaned(A, t) ==
    WithCollections(A, CleanupOldEntries(A.audit_log, A.decision_history, A.activity_log,
                                         A.session_trails, t))

\* A variant of the handlers' frame without the try/except: what raises inside
\* the call reaches the caller.
BeginUnguarded(A, op, action, session_id) ==
    [A EXCEPT !.calls = @ + 1,
              !.auditRet = [op |-> op, action |-> action, session_id |-> session_id,
                            audit_id |-> A.calls + 1, ret |-> NoneId,
                            raised |-> TRUE, escaped |-> TRUE]]

\* The frame of a log_* call: `try:`, audit_id = str(uuid.uuid4()), and
\* `except Exception: ... return None`.  Until the call gets to its `return
\* audit_id` its outcome is that of the except branch.
Begin(A, op, action, session_id) ==
    [A EXCEPT !.calls = @ + 1,
              !.auditRet = [op |-> op, action |-> action, session_id |-> session_id,
                            audit_id |-> A.calls + 1, ret |-> NoneId,
                            raised |-> TRUE, escaped |-> FALSE]]

\* return audit_id
Returned(A) ==
    [A EXCEPT !.auditRet.ret = A.auditRet.audit_id, !.auditRet.raised = FALSE,
              !.auditRet.escaped = FALSE]

\* The entry every log_* method builds.
AuditEntry(audit_id, t, action, user_id, session_id, payload) ==
    [audit_id |-> audit_id, timestamp |-> t, action |-> action,
     user_id |-> user_id, session_id |-> session_id, payload |-> payload]

\* safe_decision_history_entry of log_decision
HistoryEntry(audit_id, t, safe_decision, safe_query_context) ==
    [audit_id |-> audit_id, timestamp |-> t,
     decision |-> DictGet(safe_decision, "status", PStr("unknown", 7)),
     amount |-> DictGet(safe_decision, "amount", PStr("N/A", 3)),
     confidence |-> DictGet(safe_decision, "confidence", PNum(0)),
     query_summary |-> CreateQuerySummary(safe_query_context)]

\* self.audit_log.append(audit_entry)
WithAuditEntry(A, audit_entry) ==
    [A EXCEPT !.audit_log = Append(@, audit_entry), !.written = Append(@, audit_entry)]

\* self.decision_history.append(safe_decision_history_entry)
WithHistory(A, history_entry) == [A EXCEPT !.decision_history = Append(@, history_entry)]

\* self.activity_log.append(entry)
WithActivity(A, entry) == [A EXCEPT !.activity_log = Append(@, entry)]

\* self.session_trails[session_id].append(entry)
WithTrail(A, session_id, entry) ==
    [A EXCEPT !.session_trails = TrailAppend(@, session_id, entry)]

\* log_decision from its first append on.
StoreDecision(A, t, session_id, safe_decision, audit_entry, history_entry) ==
    IF safe_decision.t # "dict"
    THEN WithAuditEntry(A, audit_entry)     \* safe_decision.get raises after the append
    ELSE IF session_id = UnhashableSession  \* the session_trails lookup raises
    THEN WithHistory(WithAuditEntry(A, audit_entry), history_entry)
    ELSE Returned(Cleaned(WithTrail(WithHistory(WithAuditEntry(A, audit_entry), history_entry),
                                    session_id, audit_entry), t))

\* log_decision once its four payloads went through _create_safe_dict.
LogDecisionSafe(A, t, session_id, user_id, query, safe_decision, safe_query_context, safe_reasoning_result, safe_consistency_validation) ==
    IF Raised \in {safe_decision, safe_query_context, safe_reasoning_result,
                   safe_consistency_validation}
    THEN A      \* raised before anything was appended
    ELSE StoreDecision(A, t, session_id, safe_decision,
             AuditEntry(A.auditRet.audit_id, t, "decision_made", user_id, session_id,
                        [query |-> query, decision |-> safe_decision,
                         query_context |-> safe_query_context,
                         reasoning_result |-> safe_reasoning_result,
                         consistency_validation |-> safe_consistency_validation]),
             HistoryEntry(A.auditRet.audit_id, t, safe_decision, safe_query_context))

\* AuditTrail.log_decision at time t: the object after the call
LogDecision(A, t, session_id, user_id, query, decision, query_context, reasoning_result, consistency_validation) ==
    LogDecisionSafe(Begin(A, "log_decision", "decision_made", session_id), t, session_id,
                    user_id, query, Sanitize(decision), Sanitize(query_context),
                    Sanitize(reasoning_result),
                    IF Truthy(consistency_validation)
                    THEN Sanitize(consistency_validation) ELSE PNone)

\* log_activity and log_error from their append on.
StoreActivity(A, t, session_id, entry) ==
    IF session_id = UnhashableSession
    THEN WithActivity(A, entry)             \* the session_trails lookup raises
    ELSE Returned(Cleaned(WithTrail(WithActivity(A, entry), session_id, entry), t))

\* log_activity and log_error once the details went through _create_safe_dict.
LogActivitySafe(A, t, session_id, user_id, action, fields, safe) ==
    IF safe = Raised THEN A
    ELSE StoreActivity(A, t, session_id,
             AuditEntry(A.auditRet.audit_id, t, action, user_id, session_id,
                        [fields |-> fields, details |-> safe]))

\* AuditTrail.log_activity
LogActivity(A, t, session_id, user_id, action, details) ==
    LogActivitySafe(Begin(A, "log_activity", action, session_id), t, session_id, user_id,
                    action, <<>>, Sanitize(IF Truthy(details) THEN details ELSE PDict(<<>>)))

\* AuditTrail.log_error
LogError(A, t, session_id, user_id, error_type, error_message, context) ==
    LogActivitySafe(Begin(A, "log_error", error_type, session_id), t, session_id, user_id,
                    "error_occurred", <<error_type, error_message>>,
                    Sanitize(IF Truthy(context) THEN context ELSE PDict(<<>>)))

\* The AuditTrail object becomes A.
SetAudit(A) ==
    /\ audit_log' = A.audit_log
    /\ decision_history' = A.decision_history
    /\ activity_log' = A.activity_log
    /\ session_trails' = A.session_trails
    /\ calls' = A.calls
    /\ auditRet' = A.auditRet
    /\ written' = A.written

\* The clock moves between calls.
Tick(d) == now' = now + d

\* AuditTrail.__init__
AuditInit ==
    /\ now = 0
    /\ audit_log = <<>>
    /\ decision_history = <<>>
    /\ activity_log = <<>>
    /\ session_trails = <<>>
    /\ calls = 0
    /\ auditRet = [op |-> "none", action |-> "", session_id |-> "", audit_id |-> 0, ret |-> NoneId,
                   raised |-> FALSE, escaped |-> FALSE]
    /\ written = <<>>

-----------------------------------------------------------------------------
(***************************************************************************)
(* SpecAudit: any sequence of audit writes, with the clock moving between  *)
(* them.  The payloads are small; SpecSanitize exercises the sanitizer.    *)
(***************************************************************************)
MaxCalls == 3          \* audit writes per behaviour
MaxAuditDays == 366    \* the clock stops here

Sessions == {"s1", "s2"}
Users == {"u1"}
AuditTickSteps == {364 * DaySeconds, 365 * DaySeconds}

ApprovedDecision == PDict(<< <<"status", PStr("approved", 8)>>, <<"amount", PStr("N/A", 3)>> >>)
\* What callers hand to log_decision as the decision: the dict of the
\* structured response, or (ill-typed) the bare status string.
AuditDecisions == {ApprovedDecision, PStr("approved", 8)}

AuditLogDecision ==
    \E s \in Sessions \cup {UnhashableSession}, u \in Users, d \in AuditDecisions :
        /\ calls < MaxCalls
        /\ SetAudit(LogDecision(AuditState, now, s, u, "q", d, PDict(<<>>), PDict(<<>>), PNone))
        /\ UNCHANGED <<now, nonAudit>>

AuditLogActivity ==
    \E s \in Sessions \cup {UnhashableSession}, u \in Users :
        /\ calls < MaxCalls
        /\ SetAudit(LogActivity(AuditState, now, s, u, "query_started", PNone))
        /\ UNCHANGED <<now, nonAudit>>

AuditLogError ==
    \E s \in Sessions \cup {UnhashableSession}, u \in Users :
        /\ calls < MaxCalls
        /\ SetAudit(LogError(AuditState, now, s, u, "llm_error", "msg", PNone))
        /\ UNCHANGED <<now, nonAudit>>

AuditTick ==
    \E d \in AuditTickSteps :
        /\ now + d <= MaxAuditDays * DaySeconds
        /\ Tick(d)
        /\ UNCHANGED <<auditVars, nonAudit>>

AuditNext == AuditLogDecision \/ AuditLogActivity \/ AuditLogError \/ AuditTick

-----------------------------------------------------------------------------
(***************************************************************************)
(* The Cache Manager.  A category's dict is the sequence of its entries    *)
(* [key, value, timestamp, access_count] in insertion order (the order a   *)
(* Python dict iterates in, which the stable sort of the eviction sees).   *)
(***************************************************************************)
Categories == {"document", "query", "decision", "reasoning"}
document_cache_ttl == 3600
query_cache_ttl == 1800
decision_cache_ttl == 7200
reasoning_cache_ttl == 3600
max_cache_size == 1    \* cache_config["max_cache_size"], scaled down from 1000
cleanup_interval == 300

Ttl(c) ==
    CASE c = "document" -> document_cache_ttl
      [] c = "query" -> query_cache_ttl
      [] c = "decision" -> decision_cache_ttl
      [] c = "reasoning" -> reasoning_cache_ttl

\* A query that is neither a str nor hashable (a list): query.encode() raises and
\* so does the hash(query) of the handler.
UnhashableQuery == "<list query>"

\* The cache key of each category: f"doc_emb_{id}", _generate_query_cache_key,
\* f"decision_{hash}", f"reasoning_{hash}".  md5 is taken to be injective.
CacheKey(c, k) ==
    CASE c = "document" -> <<"doc_emb_", k>>
      [] c = "query" -> IF k = UnhashableQuery THEN <<"raised", k>> ELSE <<"query_md5_", k>>
      [] c = "decision" -> <<"decision_", k>>
      [] c = "reasoning" -> <<"reasoning_", k>>

KeyRaises(c, k) == CacheKey(c, k)[1] = "raised"

\* CacheManager._is_cache_entry_valid
IsCacheEntryValid(entry, c, t) == t - entry.timestamp < Ttl(c)

Index(d, key) == IF \E i \in 1..Len(d) : d[i].key = key
                 THEN CHOOSE i \in 1..Len(d) : d[i].key = key ELSE 0

\* d[key] = entry: an existing key keeps its place, a new one goes last.
DictSet(d, entry) ==
    IF Index(d, entry.key) = 0 THEN Append(d, entry)
    ELSE [d EXCEPT ![Index(d, entry.key)] = entry]

\* A sweep that deletes nothing
CleanupExpiredKeeps(d, c, t) == d

\* CacheManager._cleanup_expired_entries, for one category
CleanupExpired(d, c, t) == SelectSeq(d, LAMBDA e : IsCacheEntryValid(e, c, t))

\* A sort on the timestamp alone
BeforeByAge(d, i, j) ==
    \/ d[i].timestamp < d[j].timestamp
    \/ d[i].timestamp = d[j].timestamp /\ i < j

\* sorted(cache_dict.items(), key=(access_count, timestamp)): the position of d[i]
Before(d, i, j) ==
    \/ d[i].access_count < d[j].access_count
    \/ d[i].access_count = d[j].access_count /\ d[i].timestamp < d[j].timestamp
    \/ d[i].access_count = d[j].access_count /\ d[i].timestamp = d[j].timestamp /\ i < j
SortedPos(d, i) == Cardinality({j \in 1..Len(d) : Before(d, j, i)})

ToRemove(d) == IF Len(d) > max_cache_size THEN Len(d) - max_cache_size ELSE 0

Keep(d, idx) ==
    LET RECURSIVE K(_)
        K(i) == IF i > Len(d) THEN <<>>
                ELSE IF i \in idx THEN <<d[i]>> \o K(i + 1) ELSE K(i + 1)
    IN K(1)

\* CacheManager._enforce_cache_size_limits, for one category
EnforceSize(d) == Keep(d, {i \in 1..Len(d) : SortedPos(d, i) >= ToRemove(d)})

\* CacheManager._cleanup_cache_if_needed, on the caches `ch`
CleanupCacheIfNeeded(ch, stats, t) ==
    IF t - stats.last_cleanup < cleanup_interval
    THEN [cache |-> ch, stats |-> stats]
    ELSE LET live == [c \in Categories |-> CleanupExpired(ch[c], c, t)]
             evicted == SumSeq([i \in 1..4 |->
                            ToRemove(live[<<"document", "query", "decision", "reasoning">>[i]])])
         IN [cache |-> [c \in Categories |-> EnforceSize(live[c])],
             stats |-> [stats EXCEPT !.evictions = @ + evicted, !.last_cleanup = t]]

\* cache_document_embeddings, cache_query_processing, cache_decision_result,
\* cache_reasoning_result: the four put operations
CachePut(c, k, v) ==
    LET entry == [key |-> CacheKey(c, k), value |-> v, timestamp |-> now, access_count |-> 0]
        r == CleanupCacheIfNeeded([cache EXCEPT ![c] = DictSet(@, entry)], cache_stats, now)
        op(ret) == [op |-> "put", cat |-> c, key |-> k, value |-> v, at |-> now, ret |-> ret]
    IN /\ cachePrev' = cacheRet
       /\ IF KeyRaises(c, k)
          THEN /\ cacheRet' = op("False")
               /\ UNCHANGED <<cache, cache_stats>>
          ELSE /\ cache' = r.cache
               /\ cache_stats' = r.stats
               /\ cacheRet' = op("True")
       /\ UNCHANGED <<now, focus>>

\* get_cached_document_embeddings, get_cached_query_processing,
\* get_cached_decision_result, get_cached_reasoning_result: the four get operations
CacheGet(c, k) ==
    LET i == Index(cache[c], CacheKey(c, k))
        op(ret) == [op |-> "get", cat |-> c, key |-> k, value |-> "", at |-> now, ret |-> ret]
    IN /\ cachePrev' = cacheRet
       /\ IF KeyRaises(c, k)
          THEN /\ cacheRet' = op("None")
               /\ UNCHANGED <<cache, cache_stats>>
          ELSE IF i # 0 /\ IsCacheEntryValid(cache[c][i], c, now)
          THEN /\ cache' = [cache EXCEPT ![c][i].access_count = @ + 1]
               /\ cache_stats' = [cache_stats EXCEPT !.hits = @ + 1]
               /\ cacheRet' = op(cache[c][i].value)
          ELSE /\ cache_stats' = [cache_stats EXCEPT !.misses = @ + 1]
               /\ cacheRet' = op("None")
               /\ UNCHANGED cache
       /\ UNCHANGED <<now, focus>>

\* CacheManager.__init__
CacheInit ==
    /\ cache = [c \in Categories |-> <<>>]
    /\ cache_stats = [hits |-> 0, misses |-> 0, evictions |-> 0, last_cleanup |-> 0]
    /\ cacheRet = [op |-> "none", cat |-> "", key |-> "", value |-> "", at |-> 0, ret |-> ""]
    /\ cachePrev = [op |-> "none", cat |-> "", key |-> "", value |-> "", at |-> 0, ret |-> ""]

\* APIEndpoints.__init__
ApiInit ==
    /\ request_counts = <<>>
    /\ admitted = <<>>
    /\ apiRet = [op |-> "none", client_ip |-> "", at |-> 0, ret |-> TRUE]

\* The state after construction; `inputs` are the arguments a specification
\* applies its function to and `categories` the cache categories it exercises.
InitOn(inputs, categories) ==
    /\ AuditInit
    /\ CacheInit
    /\ focus \in categories
    /\ steps = 0
    /\ input \in inputs
    /\ output = NotRun
    /\ chain_results = <<>>
    /\ runOut = NotRun
    /\ threads = <<>>
    /\ ApiInit

Init == InitOn({NotRun}, {"none"})

SpecAudit == Init /\ [][AuditNext]_vars

\* C1: whenever a write has returned, audit_log holds at most max_log_size
\* entries and is exactly the most recently written entries, in write order.
C1_AuditLogCapped ==
    /\ Len(audit_log) <= max_log_size
    /\ Len(audit_log) <= Len(written)
    /\ audit_log = LastN(written, Len(audit_log))

-----------------------------------------------------------------------------
(***************************************************************************)
(* SpecSanitize: one audit write whose payload carries a secret under a    *)
(* sensitive key, at any depth up to MaxDepth inside dicts and lists.      *)
(***************************************************************************)
MaxDepth == 3          \* containers around the innermost dict
MaxWrites == 1         \* audit writes per behaviour

Secret1 == PStr("hunter2", 7)
Secret2 == PStr("letmein", 7)
SensitiveKeys == {"passwords", "Passwords", "API_KEYS", "personal_data"}
Leaves ==
    {PDict(<< <<k, v>> >>) : k \in SensitiveKeys, v \in {Secret1, Secret2}}
        \cup {PDict(<< <<"note", PStr("hello", 5)>> >>)}

RECURSIVE PayloadsAt(_)
PayloadsAt(d) ==
    IF d = 0 THEN Leaves
    ELSE LET P == PayloadsAt(d - 1)
         IN P \cup {PDict(<< <<"data", p>> >>) : p \in P} \cup {PList(<<p>>) : p \in P}

Payloads == PayloadsAt(MaxDepth)

\* log_decision(..., decision=input, ...)
SanitizeLogDecision ==
    /\ calls < MaxWrites
    /\ SetAudit(LogDecision(AuditState, now, "s1", "u1", "q", input, PDict(<<>>), PDict(<<>>), PNone))
    /\ UNCHANGED <<now, nonAudit>>

\* log_activity(..., details=input)
SanitizeLogActivity ==
    /\ calls < MaxWrites
    /\ SetAudit(LogActivity(AuditState, now, "s1", "u1", "login", input))
    /\ UNCHANGED <<now, nonAudit>>

\* log_error(..., context=input)
SanitizeLogError ==
    /\ calls < MaxWrites
    /\ SetAudit(LogError(AuditState, now, "s1", "u1", "llm_error", "msg", input))
    /\ UNCHANGED <<now, nonAudit>>

SanitizeNext == SanitizeLogDecision \/ SanitizeLogActivity \/ SanitizeLogError

InitSanitize == InitOn(Payloads, {"none"})

SpecSanitize == InitSanitize /\ [][SanitizeNext]_vars

\* The text of v shows a secret: v is one, contains one, or is the untruncated
\* str() of a value that contains one.
RECURSIVE ShowsSecret(_)
ShowsSecret(v) ==
    CASE v.t = "str" -> v \in {Secret1, Secret2}
      [] v.t = "dict" -> \E i \in 1..Len(v.items) : ShowsSecret(v.items[i][2])
      [] v.t = "list" -> \E i \in 1..Len(v.items) : ShowsSecret(v.items[i])
      [] v.t = "strof" -> ~v.dots /\ ShowsSecret(v.of)
      [] OTHER -> FALSE

\* The same payload with the other secret in the place of each secret.
RECURSIVE SwapSecrets(_)
SwapSecrets(v) ==
    CASE v = Secret1 -> Secret2
      [] v = Secret2 -> Secret1
      [] v.t = "dict" ->
            PDict([i \in 1..Len(v.items) |-> <<v.items[i][1], SwapSecrets(v.items[i][2])>>])
      [] v.t = "list" -> PList([i \in 1..Len(v.items) |-> SwapSecrets(v.items[i])])
      [] OTHER -> v

\* The sanitized payload an entry stores.
Stored(e) == IF e.action = "decision_made" THEN e.payload.decision ELSE e.payload.details

\* C2: no stored entry shows the raw value of a sensitive key, at any depth of
\* the payload, and the entry stored for a payload is the one stored for the
\* same payload with another secret.
C2_SensitiveRedacted ==
    \A log \in {audit_log, activity_log} : \A i \in 1..Len(log) :
        /\ ~ShowsSecret(Stored(log[i]))
        /\ Stored(log[i]) = Sanitize(SwapSecrets(input))

-----------------------------------------------------------------------------
(***************************************************************************)
(* SpecCache: puts and gets on one category, with the clock moving         *)
(* between them.                                                           *)
(***************************************************************************)
MaxCacheSteps == 5     \* cache operations and clock steps per behaviour
MaxCacheTime == 7200   \* the clock stops here

CacheKeys == {"k1", "k2"}
CacheValues == {"v1", "v2"}
CacheTickSteps == {1800, 3600}
KeysOf(c) == IF c = "query" THEN CacheKeys \cup {UnhashableQuery} ELSE CacheKeys


CachePutStep ==
    \E k \in KeysOf(focus), v \in CacheValues :
        /\ steps < MaxCacheSteps
        /\ CachePut(focus, k, v)
        /\ steps' = steps + 1
        /\ UNCHANGED nonCache

CacheGetStep ==
    \E k \in KeysOf(focus) :
        /\ steps < MaxCacheSteps
        /\ CacheGet(focus, k)
        /\ steps' = steps + 1
        /\ UNCHANGED nonCache

CacheTick ==
    \E d \in CacheTickSteps :
        /\ steps < MaxCacheSteps
        /\ now + d <= MaxCacheTime
        /\ Tick(d)
        /\ steps' = steps + 1
        /\ UNCHANGED <<cacheVars, nonCache>>

CacheNext == CachePutStep \/ CacheGetStep \/ CacheTick

InitCache == InitOn({NotRun}, Categories)

SpecCache == InitCache /\ [][CacheNext]_vars

\* C3: a get for key k that directly follows a (successful) put of v under k
\* returns v when less than the category's TTL has elapsed since the put, and
\* None when the TTL or more has elapsed.
C3_GetAfterPut ==
    (/\ cacheRet.op = "get"
     /\ cachePrev.op = "put"
     /\ cachePrev.ret = "True"
     /\ cachePrev.cat = cacheRet.cat
     /\ cachePrev.key = cacheRet.key)
    => IF cacheRet.at - cachePrev.at < Ttl(cacheRet.cat)
       THEN cacheRet.ret = cachePrev.value
       ELSE cacheRet.ret = "None"

-----------------------------------------------------------------------------
(***************************************************************************)
(* The Multi-Hop Reasoner: chain verdict and cross-chain synthesis.        *)
(* A step result is its status; a chain result is its name, its            *)
(* chain_decision status and its confidence <<confident steps, steps>>.    *)
(***************************************************************************)
SeqRange(f) == {f[i] : i \in 1..Len(f)}

\* A variant that looks for an ineligible step before an excluded one.
EvaluateChainDecisionIneligibleFirst(step_results) ==
    LET status_counts == SeqRange(step_results)
    IN IF "ineligible" \in status_counts THEN "ineligible"
       ELSE IF "excluded" \in status_counts THEN "excluded"
       ELSE IF "restricted" \in status_counts THEN "restricted"
       ELSE IF "covered" \in status_counts \/ "eligible" \in status_counts THEN "eligible"
       ELSE "conditional"

\* MultiHopReasoner._evaluate_chain_decision
EvaluateChainDecision(step_results) ==
    LET status_counts == SeqRange(step_results)
    IN IF "excluded" \in status_counts THEN "excluded"
       ELSE IF "ineligible" \in status_counts THEN "ineligible"
       ELSE IF "restricted" \in status_counts THEN "restricted"
       ELSE IF "covered" \in status_counts \/ "eligible" \in status_counts THEN "eligible"
       ELSE "conditional"

\* MultiHopReasoner._calculate_step_confidence, as the fraction <<numerator, denominator>>
CalculateStepConfidence(step_results) ==
    IF step_results = <<>> THEN <<0, 1>>
    ELSE <<Cardinality({i \in 1..Len(step_results) :
                step_results[i] \in {"eligible", "covered", "no_exclusions"}}),
           Len(step_results)>>

\* The chains of MultiHopReasoner.reasoning_chains, in the order
\* _identify_active_chains appends them.
ChainOrder == <<"demographic_eligibility", "procedure_coverage", "medical_complexity", "policy_analysis">>
ChainPos(name) == CHOOSE i \in 1..Len(ChainOrder) : ChainOrder[i] = name

\* What _execute_single_chain returns for a chain whose steps came out as step_results.
SingleChainResult(chain_name, step_results) ==
    [chain_name |-> chain_name,
     chain_decision |-> EvaluateChainDecision(step_results),
     confidence |-> CalculateStepConfidence(step_results)]

NamesWhere(cr, statuses) ==
    LET hit == SelectSeq(cr, LAMBDA r : r.chain_decision \in statuses)
    IN [i \in 1..Len(hit) |-> hit[i].chain_name]

\* A variant without the `ineligible` branch, and which counts a restricted
\* chain as opposing.
SynthesizeResultsNoIneligible(cr) ==
    LET decisions == {cr[i].chain_decision : i \in 1..Len(cr)}
        final ==
            IF "excluded" \in decisions THEN <<"rejected", "Exclusions apply">>
            ELSE IF decisions \subseteq {"eligible", "covered"}
                 THEN <<"approved", "All requirements met">>
            ELSE IF "restricted" \in decisions THEN <<"conditional", "Some restrictions apply">>
            ELSE <<"unclear", "Insufficient information for clear decision">>
    IN IF cr = <<>>
       THEN [status |-> "error", reason |-> "No reasoning chains executed"]
       ELSE [status |-> final[1], reason |-> final[2],
             supporting_chains |-> NamesWhere(cr, {"eligible", "covered"}),
             opposing_chains |-> NamesWhere(cr, {"excluded", "ineligible", "restricted"})]

\* MultiHopReasoner._synthesize_results
SynthesizeResults(cr) ==
    LET decisions == {cr[i].chain_decision : i \in 1..Len(cr)}
        final ==
            IF "excluded" \in decisions THEN <<"rejected", "Exclusions apply">>
            ELSE IF "ineligible" \in decisions
                 THEN <<"rejected", "Eligibility requirements not met">>
            ELSE IF decisions \subseteq {"eligible", "covered"}
                 THEN <<"approved", "All requirements met">>
            ELSE IF "restricted" \in decisions THEN <<"conditional", "Some restrictions apply">>
            ELSE <<"unclear", "Insufficient information for clear decision">>
    IN IF cr = <<>>
       THEN [status |-> "error", reason |-> "No reasoning chains executed"]
       ELSE [status |-> final[1], reason |-> final[2],
             supporting_chains |-> NamesWhere(cr, {"eligible", "covered"}),
             opposing_chains |-> NamesWhere(cr, {"excluded", "ineligible"})]

-----------------------------------------------------------------------------
(***************************************************************************)
(* SpecChain: _evaluate_chain_decision applied to any list of step         *)
(* results.  SpecSynth: the chains run in order, each on any list of step  *)
(* results, and _synthesize_results is applied to what they returned.      *)
(***************************************************************************)
MaxStepResults == 2    \* steps per chain

StepStatuses == {"excluded", "ineligible", "restricted", "eligible", "covered", "conditional", "unknown"}
SeqsUpTo(S, n) == UNION {[1..k -> S] : k \in 0..n}
StepLists == SeqsUpTo(StepStatuses, MaxStepResults)

ChainApply ==
    /\ output = NotRun
    /\ output' = [chain_decision |-> EvaluateChainDecision(input)]
    /\ UNCHANGED <<input, chain_results, nonFn>>

ChainNext == ChainApply

InitChain == InitOn(StepLists, {"none"})

SpecChain == InitChain /\ [][ChainNext]_vars

Some(step_results, status) == \E i \in 1..Len(step_results) : step_results[i] = status

\* C4: the chain verdict is `excluded` if any step is excluded; otherwise
\* `ineligible` if any step is ineligible; otherwise `restricted` if any step is
\* restricted; otherwise `eligible` if any step is eligible or covered; otherwise
\* `conditional`.
C4_ChainVerdictPriority ==
    output # NotRun =>
        LET verdict == output.chain_decision
            ex == Some(input, "excluded")
            inel == Some(input, "ineligible")
            res == Some(input, "restricted")
            el == Some(input, "eligible") \/ Some(input, "covered")
        IN /\ ex => verdict = "excluded"
           /\ ~ex /\ inel => verdict = "ineligible"
           /\ ~ex /\ ~inel /\ res => verdict = "restricted"
           /\ ~ex /\ ~inel /\ ~res /\ el => verdict = "eligible"
           /\ ~ex /\ ~inel /\ ~res /\ ~el => verdict = "conditional"

\* An excluded step after an ineligible one: the verdict is `excluded`.
C4_Witness ==
    /\ output # NotRun
    /\ input = <<"ineligible", "excluded">>
    /\ output.chain_decision = "excluded"

\* The step results of a chain of SpecSynth: every chain verdict arises from them.
MaxSynthSteps == 1
SynthStatuses == {"excluded", "ineligible", "restricted", "eligible", "unknown"}
SynthStepLists == SeqsUpTo(SynthStatuses, MaxSynthSteps)

\* One iteration of the loop of execute_reasoning_chain: the next active chain runs.
SynthExecuteChain ==
    \E name \in SeqRange(ChainOrder), step_results \in SynthStepLists :
        /\ output = NotRun
        /\ \A i \in 1..Len(chain_results) : ChainPos(chain_results[i].chain_name) < ChainPos(name)
        /\ chain_results' = Append(chain_results, SingleChainResult(name, step_results))
        /\ UNCHANGED <<input, output, nonFn>>

\* The loop is over: final_result = self._synthesize_results(chain_results, ...)
SynthSynthesize ==
    /\ output = NotRun
    /\ output' = SynthesizeResults(chain_results)
    /\ UNCHANGED <<input, chain_results, nonFn>>

SynthNext == SynthExecuteChain \/ SynthSynthesize

SpecSynth == Init /\ [][SynthNext]_vars

ChainsWith(statuses) ==
    {chain_results[i].chain_name : i \in 1..Len(chain_results)
        \ {i \in 1..Len(chain_results) : chain_results[i].chain_decision \notin statuses}}

\* C5: when at least one chain ran, the final status is rejected if any chain
\* verdict is excluded, else rejected if any is ineligible, else approved if
\* every verdict is eligible, else conditional if any is restricted, else
\* unclear; supporting_chains are exactly the chains with an eligible verdict and
\* opposing_chains exactly those with an excluded or ineligible verdict.
C5_CrossChainSynthesis ==
    (output # NotRun /\ chain_results # <<>>) =>
        LET verdicts == {chain_results[i].chain_decision : i \in 1..Len(chain_results)}
            rejected == "excluded" \in verdicts \/ "ineligible" \in verdicts
            approved == ~rejected /\ verdicts = {"eligible"}
            conditional == ~rejected /\ ~approved /\ "restricted" \in verdicts
        IN /\ output.status = "rejected" <=> rejected
           /\ output.status = "approved" <=> approved
           /\ output.status = "conditional" <=> conditional
           /\ output.status = "unclear" <=> (~rejected /\ ~approved /\ ~conditional)
           /\ SeqRange(output.supporting_chains) = ChainsWith({"eligible"})
           /\ SeqRange(output.opposing_chains) = ChainsWith({"excluded", "ineligible"})
           /\ Len(output.supporting_chains) = Cardinality(ChainsWith({"eligible"}))
           /\ Len(output.opposing_chains) = Cardinality(ChainsWith({"excluded", "ineligible"}))

\* Three chains ran: one eligible, one ineligible, one restricted.
C5_Witness ==
    /\ output # NotRun
    /\ Len(chain_results) = 3
    /\ {chain_results[i].chain_decision : i \in 1..3} = {"eligible", "ineligible", "restricted"}
    /\ output.status = "rejected"
    /\ Len(output.supporting_chains) = 1
    /\ Len(output.opposing_chains) = 1

-----------------------------------------------------------------------------
(***************************************************************************)
(* The Clause Extractor.  A text is the sequence of its lower-cased words  *)
(* and a keyword the sequence of its words; `keyword in content_lower` is  *)
(* the keyword occurring as a run of consecutive words (no word of the     *)
(* model's vocabulary contains another one, so the substring test of the   *)
(* code and the word test agree).                                          *)
(***************************************************************************)
approval_keywords ==
    << <<"covered">>, <<"eligible">>, <<"approved">>, <<"included">>, <<"admissible">>,
       <<"payable">>, <<"reimbursable">>, <<"authorized">>, <<"permitted">>, <<"allowed">> >>

rejection_keywords ==
    << <<"not", "covered">>, <<"not", "eligible">>, <<"rejected">>, <<"excluded">>,
       <<"declined">>, <<"denied">>, <<"not", "payable">>, <<"not", "admissible">>,
       <<"prohibited">>, <<"restricted">>, <<"excluded", "from", "coverage">> >>

conditional_keywords ==
    << <<"subject", "to">>, <<"conditional", "upon">>, <<"depends", "on">>, <<"may", "be">>,
       <<"if", "approved">>, <<"pending">>, <<"under", "review">>, <<"requires">> >>

\* keyword in content
Occurs(keyword, content) ==
    \E i \in 1..Len(content) :
        /\ i + Len(keyword) - 1 <= Len(content)
        /\ SubSeq(content, i, i + Len(keyword) - 1) = keyword

\* any(keyword in content_lower for keyword in keywords)
AnyKeyword(keywords, content) ==
    \E k \in 1..Len(keywords) : Occurs(keywords[k], content)

\* ClauseExtractor._analyze_clause_impact: <<clause_type, decision_impact>>
AnalyzeClauseImpact(content) ==
    IF AnyKeyword(approval_keywords, content) THEN <<"approval", "positive">>
    ELSE IF AnyKeyword(rejection_keywords, content) THEN <<"rejection", "negative">>
    ELSE IF AnyKeyword(conditional_keywords, content) THEN <<"conditional", "neutral">>
    ELSE <<"informational", "neutral">>

-----------------------------------------------------------------------------
(***************************************************************************)
(* SpecClause: _analyze_clause_impact applied to any snippet of at most    *)
(* MaxWords words of the vocabulary.                                       *)
(***************************************************************************)
MaxWords == 3

Vocabulary == {"teeth", "not", "covered", "excluded", "subject", "to", "pending"}
Snippets == SeqsUpTo(Vocabulary, MaxWords)

ClauseApply ==
    /\ output = NotRun
    /\ output' = [impact |-> AnalyzeClauseImpact(input)]
    /\ UNCHANGED <<input, chain_results, nonFn>>

ClauseNext == ClauseApply

InitClause == InitOn(Snippets, {"none"})

SpecClause == InitClause /\ [][ClauseNext]_vars

\* C6: a snippet that contains a rejection keyword is negative (also when it
\* contains an approval keyword); one with approval keywords only is positive;
\* one that matches no list is informational and neutral.
C6_RejectionFirst ==
    output # NotRun =>
        LET rejection == AnyKeyword(rejection_keywords, input)
            approval == AnyKeyword(approval_keywords, input)
            conditional == AnyKeyword(conditional_keywords, input)
        IN /\ rejection => output.impact = <<"rejection", "negative">>
           /\ ~rejection /\ approval => output.impact = <<"approval", "positive">>
           /\ ~rejection /\ ~approval /\ ~conditional
                 => output.impact = <<"informational", "neutral">>

-----------------------------------------------------------------------------
(***************************************************************************)
(* Query validation.  A parsed query is the dict _parse_basic returns:     *)
(* each field is None or a string.  The query text matters by its length.  *)
(***************************************************************************)
None == "None"
ParsedFields == <<"age", "gender", "procedure", "location", "policy_duration", "medical_condition", "urgency", "coverage_type">>
min_query_length == 5
max_query_length == 500

\* parsed.get(field, default)
Get(parsed, field, default) == IF field \in DOMAIN parsed THEN parsed[field] ELSE default

\* not parsed.get(field): a key that is absent, None and the empty string are falsy
Missing(parsed, field) == field \notin DOMAIN parsed \/ parsed[field] \in {None, ""}

\* int(s): the value of a numeric string; on any other string int() raises.
AgeRange == 0..121
NumericStrings == {"0", "2", "3", "46", "61", "70", "120", "121"} \cup {ToString(n) : n \in AgeRange}
IntOf(s) ==
    CASE s = "0" -> 0
      [] s = "2" -> 2
      [] s = "3" -> 3
      [] s = "70" -> 70
      [] s = "46" -> 46
      [] s = "61" -> 61
      [] s = "120" -> 120
      [] s = "121" -> 121
      [] OTHER -> CHOOSE n \in AgeRange : ToString(n) = s

\* "month" in policy_duration, and policy_duration.split()[0]
HasMonth(d) == d \in {"1 month", "2 months", "3 months", "61 months", "few months"}
FirstWord(d) ==
    CASE d = "1 month" -> "1"
      [] d = "2 months" -> "2"
      [] d = "3 months" -> "3"
      [] d = "61 months" -> "61"
      [] d = "few months" -> "few"
      [] d = "2 years" -> "2"

\* The two int() calls of _validate_query raise ValueError on a non-numeric string.
ValidateRaises(parsed) ==
    \/ ~Missing(parsed, "age") /\ parsed["age"] \notin NumericStrings
    \/ /\ ~Missing(parsed, "policy_duration")
       /\ HasMonth(parsed["policy_duration"])
       /\ FirstWord(parsed["policy_duration"]) \notin NumericStrings

\* EnhancedQueryProcessor._calculate_completeness, as <<filled, total>>
CalculateCompleteness(parsed) ==
    <<Cardinality({i \in 1..Len(ParsedFields) : ~Missing(parsed, ParsedFields[i])}),
      Len(ParsedFields)>>

required_fields == <<"procedure">>
optional_fields == <<"age", "gender", "location", "policy_duration">>

\* A variant without the required-fields check.
ValidateQueryNoRequired(query_len, parsed) ==
    LET e1 == IF query_len < min_query_length
              THEN <<"Query too short. Please provide more details.">> ELSE <<>>
        e3 == IF ~Missing(parsed, "age")
                 /\ (IntOf(parsed["age"]) < 0 \/ IntOf(parsed["age"]) > 120)
              THEN <<"Invalid age specified.">> ELSE <<>>
        e4 == IF ~Missing(parsed, "gender") /\ parsed["gender"] \notin {"M", "F"}
              THEN <<"Invalid gender specification.">> ELSE <<>>
        errors == e1 \o e3 \o e4
    IN [is_valid |-> Len(errors) = 0,
        errors |-> errors,
        warnings |-> <<>>,
        suggestions |-> <<>>,
        completeness_score |-> CalculateCompleteness(parsed)]

\* EnhancedQueryProcessor._validate_query, for a query of query_len characters
ValidateQuery(query_len, parsed) ==
    LET missing_required == SelectSeq(required_fields, LAMBDA f : Missing(parsed, f))
        missing_optional == SelectSeq(optional_fields, LAMBDA f : Missing(parsed, f))
        e1 == IF query_len < min_query_length
              THEN <<"Query too short. Please provide more details.">> ELSE <<>>
        w1 == IF query_len > max_query_length
              THEN <<"Query is very long. Consider being more concise.">> ELSE <<>>
        e2 == IF missing_required # <<>>
              THEN <<"Missing required information">> ELSE <<>>
        s1 == IF missing_required # <<>>
              THEN <<"Please specify the medical procedure or treatment.">> ELSE <<>>
        s2 == IF missing_optional # <<>> THEN <<"Consider adding">> ELSE <<>>
        e3 == IF ~Missing(parsed, "age")
                 /\ (IntOf(parsed["age"]) < 0 \/ IntOf(parsed["age"]) > 120)
              THEN <<"Invalid age specified.">> ELSE <<>>
        e4 == IF ~Missing(parsed, "gender") /\ parsed["gender"] \notin {"M", "F"}
              THEN <<"Invalid gender specification.">> ELSE <<>>
        w2 == IF /\ ~Missing(parsed, "policy_duration")
                 /\ HasMonth(parsed["policy_duration"])
                 /\ (IntOf(FirstWord(parsed["policy_duration"])) < 1
                        \/ IntOf(FirstWord(parsed["policy_duration"])) > 60)
              THEN <<"Policy duration seems unusual. Please verify.">> ELSE <<>>
        errors == e1 \o e2 \o e3 \o e4
    IN [is_valid |-> Len(errors) = 0,
        errors |-> errors,
        warnings |-> w1 \o w2,
        suggestions |-> s1 \o s2,
        completeness_score |-> CalculateCompleteness(parsed)]

\* _parse_basic raises when self.nlp(query) does: spaCy refuses a text longer
\* than Language.max_length (1,000,000 characters unless configured).
nlp_max_length == 1000000
ParseRaises(query_len) == query_len > nlp_max_length

\* The "validation" of what EnhancedQueryProcessor.process_query returns: the
\* result of _validate_query, or the fallback of its except branch.
ProcessQueryValidation(query_len, parsed) ==
    IF ParseRaises(query_len) \/ ValidateRaises(parsed)
    THEN [is_valid |-> FALSE, errors |-> <<"invalid literal for int()">>]
    ELSE ValidateQuery(query_len, parsed)

-----------------------------------------------------------------------------
(***************************************************************************)
(* SpecValidate: process_query's validation of any parsed query.           *)
(***************************************************************************)
QueryLengths == {0, 4, 5, 500, 501, nlp_max_length + 1}
Ages == {None, "", "46", "120", "121", "abc"}
Genders == {None, "M", "F", "X"}
Procedures == {None, "", "knee surgery"}
Durations == {None, "3 months", "61 months", "few months", "2 years"}

ParsedQueries ==
    {[age |-> a, gender |-> g, procedure |-> p, location |-> l, policy_duration |-> d,
      medical_condition |-> m, urgency |-> u, coverage_type |-> c] :
        a \in Ages, g \in Genders, p \in Procedures, l \in {None, "Pune"}, d \in Durations,
        m \in {None, "diabetes"}, u \in {None, "high"}, c \in {None, "basic"}}

ValidateApply ==
    /\ output = NotRun
    /\ output' = ProcessQueryValidation(input.query_len, input.parsed)
    /\ UNCHANGED <<input, chain_results, nonFn>>

ValidateNext == ValidateApply

ValidateInputs == {[query_len |-> n, parsed |-> p] : n \in QueryLengths, p \in ParsedQueries}

InitValidate == InitOn(ValidateInputs, {"none"})

SpecValidate == InitValidate /\ [][ValidateNext]_vars

\* C7: a parsed query without a procedure is never valid, whatever its other
\* fields and the length of the query are.
C7_NoProcedureInvalid ==
    (output # NotRun /\ input.parsed.procedure \in {None, ""}) => output.is_valid = FALSE

\* A query that is fine but for its procedure: the only error is the missing one.
C7_Witness ==
    /\ output # NotRun
    /\ input.query_len = 5
    /\ input.parsed.procedure = None
    /\ input.parsed.age = "46"
    /\ input.parsed.gender = "M"
    /\ input.parsed.policy_duration = "3 months"
    /\ output.errors = <<"Missing required information">>
    /\ output.is_valid = FALSE

\* The number of fields of a parsed query that are not None.
NonNull(parsed) == Cardinality({i \in 1..Len(ParsedFields) : parsed[ParsedFields[i]] # None})

\* C14: the validation of every processed query carries a completeness_score,
\* and it is the number of non-null parsed fields over the number of fields.
C14_CompletenessExact ==
    output # NotRun =>
        /\ "completeness_score" \in DOMAIN output
        /\ output.completeness_score = <<NonNull(input.parsed), Len(ParsedFields)>>

\* C14 for the queries whose processing does not raise and whose fields are
\* None or non-empty, as _parse_basic leaves them.
CompletenessOfParsed ==
    (/\ output # NotRun
     /\ ~ParseRaises(input.query_len)
     /\ ~ValidateRaises(input.parsed)
     /\ \A i \in 1..Len(ParsedFields) : input.parsed[ParsedFields[i]] # "") =>
        /\ "completeness_score" \in DOMAIN output
        /\ output.completeness_score = <<NonNull(input.parsed), Len(ParsedFields)>>

-----------------------------------------------------------------------------
(***************************************************************************)
(* QAChain.run.  A question is its text, its length, whether it is blank,  *)
(* and the entities _parse_basic finds in it.  What the collaborators of   *)
(* one run do is its `env`: which stage fails (at most one per run), what  *)
(* the reasoning steps come out as and what _extract_decision reads from   *)
(* the LLM answer.                                                         *)
(***************************************************************************)
NoEntities ==
    [age |-> None, gender |-> None, procedure |-> None, location |-> None,
     policy_duration |-> None, medical_condition |-> None, urgency |-> None,
     coverage_type |-> None]

Questions ==
    {[text |-> "", len |-> 0, blank |-> TRUE, parsed |-> NoEntities],
     [text |-> "   ", len |-> 3, blank |-> TRUE, parsed |-> NoEntities],
     [text |-> "hello there", len |-> 11, blank |-> FALSE, parsed |-> NoEntities],
     [text |-> "46M knee surgery", len |-> 16, blank |-> FALSE,
      parsed |-> [NoEntities EXCEPT !.age = "46", !.gender = "M", !.procedure = "knee surgery"]]}

\* MultiHopReasoner._identify_active_chains
IsActive(chain_name, parsed) ==
    CASE chain_name = "demographic_eligibility" ->
            ~Missing(parsed, "age") \/ ~Missing(parsed, "gender")
      [] chain_name = "procedure_coverage" -> ~Missing(parsed, "procedure")
      [] chain_name = "medical_complexity" ->
            ~Missing(parsed, "medical_condition") \/ Get(parsed, "urgency", None) = "high"
      [] chain_name = "policy_analysis" ->
            ~Missing(parsed, "policy_duration") \/ ~Missing(parsed, "coverage_type")
IdentifyActiveChains(parsed) == SelectSeq(ChainOrder, LAMBDA c : IsActive(c, parsed))

\* The step results a chain of a run can come out with.
RunStepLists == {<<"eligible">>, <<"excluded">>, <<"unknown">>}

\* MultiHopReasoner.execute_reasoning_chain when nothing raises: its final_decision
\* for each way the active chains can come out.
ReasonerDecisions(parsed) ==
    LET active == IdentifyActiveChains(parsed)
    IN {SynthesizeResults([i \in 1..Len(active) |-> SingleChainResult(active[i], sr[i])]) :
            sr \in [1..Len(active) -> RunStepLists]}

\* The stages of run that can fail, and the str(e) of each failure.
Stages == {"processor", "retrieval", "reasoner", "context", "llm", "json"}
ErrorMessage(stage) ==
    CASE stage = "processor" -> "'processing_metadata'"
      [] stage = "retrieval" -> "retriever unavailable"
      [] stage = "reasoner" -> "reasoning step failed"
      [] stage = "context" -> "no page_content"
      [] stage = "llm" -> "llm unavailable"
      [] stage = "json" -> "not JSON serializable"
      [] stage = "audit" -> "audit write raised"

\* What _extract_decision returns: the first keyword list the answer matches.
ExtractedDecisions == {"Rejected", "Approved", "Unclear", "Unknown"}

\* The answer run falls back to when the LLM fails matches no keyword list.
ApologyDecision == "Unknown"

\* final_decision.get(key, []) on the reasoner's final decision
FinalGet(final_decision, key) ==
    IF key \in DOMAIN final_decision THEN final_decision[key] ELSE <<>>

\* str values and lists of str, as audit payloads
AsStr(s) == PStr(s, 6)
AsList(names) == PList([i \in 1..Len(names) |-> AsStr(names[i])])

\* structured_response["decision"] after _enhance_structured_response has written the
\* reasoner's final decision into it.
EnhancedDecision(final_decision) ==
    [status |-> final_decision.status,
     amount |-> "N/A",
     reasoning |-> final_decision.reason,
     supporting_chains |-> FinalGet(final_decision, "supporting_chains"),
     opposing_chains |-> FinalGet(final_decision, "opposing_chains")]

\* structured_response["decision"] as create_structured_response builds it from
\* what _extract_decision and _extract_amount read in the answer: the dict the
\* consistency validator and the decision explainer are called with.
ProducedDecision(decision) == [status |-> decision, amount |-> "N/A"]

\* The same dict as the payload log_decision receives.
DecisionPayload(d) ==
    PDict(<< <<"status", AsStr(d.status)>>, <<"amount", AsStr(d.amount)>>,
             <<"reasoning", AsStr(d.reasoning)>>,
             <<"supporting_chains", AsList(d.supporting_chains)>>,
             <<"opposing_chains", AsList(d.opposing_chains)>> >>)

QuestionPayload(q) == PDict(<< <<"question", PStr(q.text, q.len)>> >>)

\* query_analysis, as far as the audit trail reads it
AnalysisPayload(q) ==
    PDict(<< <<"parsed_entities",
               PDict(<< <<"age", IF q.parsed.age = None THEN PNone ELSE AsStr(q.parsed.age)>>,
                        <<"procedure", IF q.parsed.procedure = None THEN PNone
                                       ELSE AsStr(q.parsed.procedure)>> >>)>> >>)

\* An audit write that fails does so inside the try block of its handler; the
\* model lets the sanitizer be what raises.
Payload(env, p) == IF env.audit_fails THEN PTooDeep ELSE p

\* The exception of a log_* call reached its caller.
Esc(A) == A.auditRet.escaped

\* The audit writes of a run, in program order.
Started(q, env) ==
    [op |-> "log_activity", action |-> "query_started", message |-> "",
     details |-> Payload(env, QuestionPayload(q)), handler |-> FALSE]
ErrorCall(q, env, error_type, stage) ==
    [op |-> "log_error", action |-> error_type, message |-> ErrorMessage(stage),
     details |-> Payload(env, QuestionPayload(q)), handler |-> error_type = "qa_chain_error"]
DecisionCall(q, env, enhanced) ==
    [op |-> "log_decision", action |-> "decision_made", message |-> "",
     details |-> Payload(env, DecisionPayload(enhanced)), handler |-> FALSE]
Completed(env, decision) ==
    [op |-> "log_activity", action |-> "query_completed", message |-> "",
     details |-> Payload(env, PDict(<< <<"decision", AsStr(decision)>>,
                                       <<"amount", AsStr("N/A")>> >>)),
     handler |-> FALSE]

\* What the reasoner hands back: its except branch turns a failure into a decision.
FinalDecision(env) ==
    IF env.fault = "reasoner"
    THEN [status |-> "error", reason |-> ErrorMessage("reasoner")]
    ELSE env.final_decision

\* What _extract_decision reads from the answer.
LegacyDecision(env) == IF env.fault = "llm" THEN ApologyDecision ELSE env.extracted

\* The stages whose exception reaches the `except Exception` of run: the
\* processor's fallback result lacks processing_metadata, the context and the
\* JSON dump are not guarded.
Unguarded == {"processor", "context", "json"}

\* The audit writes of run(q) under env, up to its return.
RunCalls(q, env) ==
    LET fail(stage) == env.fault = stage
        caught(stage) == <<ErrorCall(q, env, "qa_chain_error", stage)>>
        retrieval == IF fail("retrieval")
                     THEN <<ErrorCall(q, env, "retrieval_error", "retrieval")>> ELSE <<>>
        llm == IF fail("llm") THEN <<ErrorCall(q, env, "llm_error", "llm")>> ELSE <<>>
        logged == <<DecisionCall(q, env, EnhancedDecision(FinalDecision(env))),
                    Completed(env, LegacyDecision(env))>>
    IN IF fail("processor") THEN <<Started(q, env)>> \o caught("processor")
       ELSE IF fail("context") THEN <<Started(q, env)>> \o retrieval \o caught("context")
       ELSE <<Started(q, env)>> \o retrieval \o llm \o logged
                \o (IF fail("json") THEN caught("json") ELSE <<>>)

\* The details of query_completed carry what log_decision returned.
WithAuditId(c, audit_id) ==
    IF c.action = "query_completed" /\ c.details # PTooDeep
    THEN PDict(<< <<"audit_id", PNum(audit_id)>> >> \o c.details.items)
    ELSE c.details

\* A payload the run builds itself, failing like the write it belongs to.
Also(c, p) == IF c.details = PTooDeep THEN PTooDeep ELSE p

\* One audit write c of a run, on the AuditTrail A.
Write(A, t, q, session_id, user_id, c, details) ==
    CASE c.op = "log_activity" -> LogActivity(A, t, session_id, user_id, c.action, details)
      [] c.op = "log_error" ->
            LogError(A, t, session_id, user_id, c.action, c.message, details)
      [] c.op = "log_decision" ->
            LogDecision(A, t, session_id, user_id, q.text, details,
                        Also(c, AnalysisPayload(q)), Also(c, PDict(<<>>)),
                        Also(c, PDict(<< <<"is_consistent", PNum(1)>> >>)))

\* The AuditTrail after the write c, and the audit_id the run holds.
Tracked(R, c, B) ==
    [A |-> B, audit_id |-> IF c.op = "log_decision" THEN B.auditRet.ret ELSE R.audit_id]

ApplyCall(R, t, q, session_id, user_id, c) ==
    Tracked(R, c, Write(R.A, t, q, session_id, user_id, c, WithAuditId(c, R.audit_id)))

\* run's `except Exception as e` branch for an exception out of the write c
HandlerCall(c) ==
    [c EXCEPT !.op = "log_error", !.action = "qa_chain_error",
              !.message = ErrorMessage("audit"), !.handler = TRUE]

\* The writes cs[i..] of a run.  Were a write to raise, run's `except` would
\* catch it and write its own error entry; were that one to raise, run would.
RECURSIVE ApplyCalls(_, _, _, _, _, _, _)
Continue(S, t, q, session_id, user_id, cs, i) ==
    IF ~Esc(S.A) THEN ApplyCalls(S, t, q, session_id, user_id, cs, i + 1)
    ELSE IF cs[i].handler THEN S
    ELSE ApplyCalls(S, t, q, session_id, user_id, <<HandlerCall(cs[i])>>, 1)

ApplyCalls(R, t, q, session_id, user_id, cs, i) ==
    IF i > Len(cs) THEN R
    ELSE Continue(ApplyCall(R, t, q, session_id, user_id, cs[i]), t, q, session_id,
                  user_id, cs, i)

\* What run returns: from its first lines (a blank question), from its except
\* branch (caught), or the combined response.
Response(q, session_id, env, R, caught) ==
    [question |-> q.text, session_id |-> session_id, fault |-> env.fault,
     audit_fails |-> env.audit_fails,
     returned |-> ~Esc(R.A),
     message |-> IF env.fault = "none" THEN "" ELSE ErrorMessage(env.fault),
     answer |-> IF q.blank THEN "Please enter a valid question."
                ELSE IF caught THEN "An error occurred while processing your question."
                ELSE IF env.fault = "llm" THEN "I apologize" ELSE "llm answer",
     structured_response |-> IF q.blank \/ caught THEN PNone
                             ELSE [decision |-> EnhancedDecision(FinalDecision(env))],
     decision |-> IF q.blank \/ caught THEN "" ELSE LegacyDecision(env),
     validated |-> IF q.blank \/ env.fault \in {"processor", "context"} THEN PNone
                   ELSE ProducedDecision(LegacyDecision(env)),
     audit_id |-> IF q.blank \/ caught THEN NoneId ELSE R.audit_id]

RunResult(q, session_id, env, R) ==
    Response(q, session_id, env, R,
             env.fault \in Unguarded \/ R.A.auditRet.action = "qa_chain_error")

\* run returns: the AuditTrail is R.A
Return(q, session_id, env, R) ==
    /\ SetAudit(R.A)
    /\ runOut' = RunResult(q, session_id, env, R)

\* QAChain.run
Run(q, session_id, user_id, env) ==
    Return(q, session_id, env,
           IF q.blank THEN [A |-> AuditState, audit_id |-> NoneId]
           ELSE ApplyCalls([A |-> AuditState, audit_id |-> NoneId], now, q,
                           session_id, user_id, RunCalls(q, env), 1))

-----------------------------------------------------------------------------
(***************************************************************************)
(* SpecPipeline: up to MaxRuns runs of QAChain.run on one QAChain, each on *)
(* any question, with any one stage failing or none, and with the audit    *)
(* writes of the run failing or not.                                       *)
(***************************************************************************)
MaxRuns == 2

\* A blank question returns before any collaborator is called.
BlankEnv ==
    [fault |-> "none", audit_fails |-> FALSE, extracted |-> "Unknown",
     final_decision |-> SynthesizeResults(<<>>)]

Envs(q) ==
    IF q.blank THEN {BlankEnv}
    ELSE {[fault |-> f, audit_fails |-> a, extracted |-> x, final_decision |-> d] :
            f \in Stages \cup {"none"}, a \in BOOLEAN, x \in {"Approved", "Unknown"},
            d \in ReasonerDecisions(q.parsed)}

PipelineRun ==
    \E q \in Questions, s \in Sessions, u \in Users :
        \E env \in Envs(q) :
            /\ steps < MaxRuns
            /\ Run(q, s, u, env)
            /\ steps' = steps + 1
            /\ UNCHANGED <<now, cacheVars, fnVars, threads, apiVars>>

PipelineNext == PipelineRun

SpecPipeline == Init /\ [][PipelineNext]_vars

\* An error entry of the session in the Audit Trail.
HasErrorEntry(session_id) ==
    \E i \in 1..Len(activity_log) :
        /\ activity_log[i].action = "error_occurred"
        /\ activity_log[i].session_id = session_id

\* C8: for the empty query the validation has a non-empty errors list, the
\* run returns (no exception) and what it returns is a decision whose status is
\* `unclear`.
C8_EmptyQueryUnclear ==
    (runOut # NotRun /\ runOut.question = "") =>
        /\ Len(ProcessQueryValidation(0, NoEntities).errors) > 0
        /\ runOut.returned
        /\ runOut.structured_response # PNone
        /\ runOut.structured_response.decision.status = "unclear"

\* C9: when a stage of a run raised, the run returns, the Audit Trail holds an
\* error entry for the session, and the result carries a decision whose status
\* is `unclear` or `error` with the error message in its reasoning.
C9_StageFailureSurfaced ==
    (runOut # NotRun /\ runOut.fault # "none" /\ ~runOut.audit_fails) =>
        /\ runOut.returned
        /\ HasErrorEntry(runOut.session_id)
        /\ runOut.structured_response # PNone
        /\ runOut.structured_response.decision.status \in {"unclear", "error"}
        /\ runOut.structured_response.decision.reasoning = runOut.message

\* The decision entries of the Audit Trail written by the run that returned last.
Audited == {i \in 1..Len(audit_log) : audit_log[i].audit_id = runOut.audit_id}

\* C15: the decision the consistency validator and the decision explainer were
\* given has the status and the amount of the decision the run wrote to the
\* Audit Trail and of the decision it returned.
C15_DecisionUnmodified ==
    (runOut # NotRun /\ runOut.validated # PNone /\ runOut.structured_response # PNone) =>
        /\ runOut.structured_response.decision.status = runOut.validated.status
        /\ runOut.structured_response.decision.amount = runOut.validated.amount
        /\ \A i \in Audited :
                /\ DictGet(Stored(audit_log[i]), "status", PNone) = AsStr(runOut.validated.status)
                /\ DictGet(Stored(audit_log[i]), "amount", PNone) = AsStr(runOut.validated.amount)

\* The part of C15 the code keeps: the amount is the same everywhere, and the
\* decision written to the Audit Trail is the decision returned.
AuditedIsReturned ==
    (runOut # NotRun /\ runOut.validated # PNone /\ runOut.structured_response # PNone) =>
        /\ runOut.structured_response.decision.amount = runOut.validated.amount
        /\ \A i \in Audited :
                /\ DictGet(Stored(audit_log[i]), "status", PNone)
                        = AsStr(runOut.structured_response.decision.status)
                /\ DictGet(Stored(audit_log[i]), "amount", PNone) = AsStr(runOut.validated.amount)

\* C16: a run that completed left an entry for its question in the query, the
\* reasoning and the decision cache.  (QAChain holds no CacheManager: run
\* leaves the caches as they are.)
C16_RunFillsCaches ==
    (runOut # NotRun /\ runOut.structured_response # PNone) =>
        \A c \in {"query", "reasoning", "decision"} :
            Index(cache[c], CacheKey(c, runOut.question)) # 0

-----------------------------------------------------------------------------
(***************************************************************************)
(* SpecFaults: audit writes, cache operations and runs in any order, each  *)
(* with an input that makes something raise inside it, or with a good one. *)
(***************************************************************************)
MaxFaultSteps == 3

\* log_decision inputs: a good one, a payload the sanitizer raises on, a decision
\* that is no dict, a session id that is no dict key.
FaultLogDecision ==
    \E s \in {"s1", UnhashableSession}, d \in {ApprovedDecision, PTooDeep, PStr("approved", 8)} :
        /\ steps < MaxFaultSteps
        /\ SetAudit(LogDecision(AuditState, now, s, "u1", "q", d, PDict(<<>>), PDict(<<>>), PNone))
        /\ steps' = steps + 1
        /\ UNCHANGED <<now, cacheVars, fnVars, runOut, threads, apiVars>>

FaultLogActivity ==
    \E s \in {"s1", UnhashableSession}, d \in {PNone, PTooDeep} :
        /\ steps < MaxFaultSteps
        /\ SetAudit(LogActivity(AuditState, now, s, "u1", "query_started", d))
        /\ steps' = steps + 1
        /\ UNCHANGED <<now, cacheVars, fnVars, runOut, threads, apiVars>>

FaultLogError ==
    \E s \in {"s1", UnhashableSession}, d \in {PNone, PTooDeep} :
        /\ steps < MaxFaultSteps
        /\ SetAudit(LogError(AuditState, now, s, "u1", "llm_error", "msg", d))
        /\ steps' = steps + 1
        /\ UNCHANGED <<now, cacheVars, fnVars, runOut, threads, apiVars>>

FaultCachePut ==
    \E c \in {"document", "query"}, k \in {"k1", UnhashableQuery} :
        /\ steps < MaxFaultSteps
        /\ CachePut(c, k, "v1")
        /\ steps' = steps + 1
        /\ UNCHANGED nonCache

FaultCacheGet ==
    \E c \in {"document", "query"}, k \in {"k1", UnhashableQuery} :
        /\ steps < MaxFaultSteps
        /\ CacheGet(c, k)
        /\ steps' = steps + 1
        /\ UNCHANGED nonCache

\* A run whose audit writes fail or not, with the processor failing or nothing.
FaultRun ==
    \E q \in Questions :
        \E env \in {e \in Envs(q) : e.fault \in {"none", "processor"} /\ e.extracted = "Unknown"
                                    /\ e.final_decision.status \in {"error", "approved"}} :
            /\ steps < MaxFaultSteps
            /\ Run(q, "s1", "u1", env)
            /\ steps' = steps + 1
            /\ UNCHANGED <<now, cacheVars, fnVars, threads, apiVars>>

FaultNext ==
    \/ FaultLogDecision \/ FaultLogActivity \/ FaultLogError
    \/ FaultCachePut \/ FaultCacheGet \/ FaultRun

SpecFaults == Init /\ [][FaultNext]_vars

-----------------------------------------------------------------------------
(***************************************************************************)
(* SpecRace: several requests in flight write to one AuditTrail.  The      *)
(* class holds no lock, so the statements of the log_* methods and of      *)
(* _cleanup_old_entries interleave.  A statement `self.x = [e for e in     *)
(* self.x if ...]` is two steps, the list being built and the attribute    *)
(* being rebound; every other statement is one step.  The clock stands     *)
(* still, so the retention cutoff removes nothing.                         *)
(***************************************************************************)
MaxThreads == 2

\* The requests of SpecRace belong to one session.
RaceSessions == {"s1"}
RaceOps == {"log_decision", "log_activity", "log_error"}

\* The action each log_* method writes into its entry.
ActionOf(op) ==
    CASE op = "log_decision" -> "decision_made"
      [] op = "log_activity" -> "query_started"
      [] op = "log_error" -> "error_occurred"

\* The thread i, and the threads with thread i changed.
At(i, pc) == i \in 1..Len(threads) /\ threads[i].pc = pc
Goto(i, pc) == [threads EXCEPT ![i].pc = pc]
GotoWith(i, pc, snap) == [threads EXCEPT ![i].pc = pc, ![i].snap = snap]

\* [entry for entry in log if fromisoformat(entry["timestamp"]) > cutoff_date]
KeepFresh(log) == SelectSeq(log, LAMBDA e : Fresh(e, now))

\* What no step of a request changes.
raceRest == <<now, auditRet, cacheVars, steps, fnVars, runOut, apiVars>>

\* Before the requests overlap, one ran alone: its log_decision is one step.
RaceAlone ==
    /\ threads = <<>>
    /\ calls = 0
    /\ SetAudit(LogDecision(AuditState, now, "s1", "u1", "q", ApprovedDecision,
                            PDict(<<>>), PDict(<<>>), PNone))
    /\ UNCHANGED <<now, nonAudit>>

\* A request enters a log_* method: audit_id = str(uuid.uuid4()) and the entry is built.
RaceBegin ==
    \E op \in RaceOps, s \in RaceSessions :
        /\ Len(threads) < MaxThreads
        /\ calls' = calls + 1
        /\ threads' = Append(threads,
                [op |-> op, session_id |-> s, pc |-> "append", snap |-> <<>>, todo |-> {},
                 ret |-> NoneId,
                 entry |-> AuditEntry(calls + 1, now, ActionOf(op), "u1", s, PDict(<<>>))])
        /\ UNCHANGED <<raceRest, audit_log, decision_history, activity_log, session_trails, written>>

\* self.audit_log.append(audit_entry) / self.activity_log.append(entry)
RaceAppend ==
    \E i \in 1..Len(threads) :
        /\ At(i, "append")
        /\ IF threads[i].op = "log_decision"
           THEN /\ audit_log' = Append(audit_log, threads[i].entry)
                /\ written' = Append(written, threads[i].entry)
                /\ threads' = Goto(i, "history")
                /\ UNCHANGED activity_log
           ELSE /\ activity_log' = Append(activity_log, threads[i].entry)
                /\ threads' = Goto(i, "check")
                /\ UNCHANGED <<audit_log, written>>
        /\ UNCHANGED <<raceRest, calls, decision_history, session_trails>>

\* self.decision_history.append(safe_decision_history_entry)
RaceHistory ==
    \E i \in 1..Len(threads) :
        /\ At(i, "history")
        /\ decision_history' = Append(decision_history,
                HistoryEntry(threads[i].entry.audit_id, threads[i].entry.timestamp,
                             PDict(<<>>), PDict(<<>>)))
        /\ threads' = Goto(i, "check")
        /\ UNCHANGED <<raceRest, calls, audit_log, activity_log, session_trails, written>>

\* if session_id not in self.session_trails:
RaceCheck ==
    \E i \in 1..Len(threads) :
        /\ At(i, "check")
        /\ threads' = Goto(i, IF threads[i].session_id \in DOMAIN session_trails
                              THEN "extend" ELSE "create")
        /\ UNCHANGED <<raceRest, calls, audit_log, decision_history, activity_log,
                       session_trails, written>>

\* self.session_trails[session_id] = []
RaceCreate ==
    \E i \in 1..Len(threads) :
        /\ At(i, "create")
        /\ session_trails' = [s \in DOMAIN session_trails \cup {threads[i].session_id} |->
                                IF s = threads[i].session_id THEN <<>> ELSE session_trails[s]]
        /\ threads' = Goto(i, "extend")
        /\ UNCHANGED <<raceRest, calls, audit_log, decision_history, activity_log, written>>

\* self.session_trails[session_id].append(entry); a KeyError (the session was
\* deleted meanwhile) ends the call in its except branch: return None
RaceExtend ==
    \E i \in 1..Len(threads) :
        /\ At(i, "extend")
        /\ IF threads[i].session_id \in DOMAIN session_trails
           THEN /\ session_trails' = TrailAppend(session_trails, threads[i].session_id,
                                                 threads[i].entry)
                /\ threads' = Goto(i, "read_audit")
           ELSE /\ threads' = Goto(i, "done")
                /\ UNCHANGED session_trails
        /\ UNCHANGED <<raceRest, calls, audit_log, decision_history, activity_log, written>>

\* _cleanup_old_entries: the right-hand side of `self.audit_log = [...]` is built
RaceReadAudit ==
    \E i \in 1..Len(threads) :
        /\ At(i, "read_audit")
        /\ threads' = GotoWith(i, "set_audit", KeepFresh(audit_log))
        /\ UNCHANGED <<raceRest, calls, audit_log, decision_history, activity_log,
                       session_trails, written>>

\* ... and the attribute is rebound to it
RaceSetAudit ==
    \E i \in 1..Len(threads) :
        /\ At(i, "set_audit")
        /\ audit_log' = threads[i].snap
        /\ threads' = GotoWith(i, "read_history", <<>>)
        /\ UNCHANGED <<raceRest, calls, decision_history, activity_log, session_trails, written>>

\* self.decision_history = [...]
RaceReadHistory ==
    \E i \in 1..Len(threads) :
        /\ At(i, "read_history")
        /\ threads' = GotoWith(i, "set_history", KeepFresh(decision_history))
        /\ UNCHANGED <<raceRest, calls, audit_log, decision_history, activity_log,
                       session_trails, written>>

RaceSetHistory ==
    \E i \in 1..Len(threads) :
        /\ At(i, "set_history")
        /\ decision_history' = threads[i].snap
        /\ threads' = GotoWith(i, "read_activity", <<>>)
        /\ UNCHANGED <<raceRest, calls, audit_log, activity_log, session_trails, written>>

\* self.activity_log = [...]
RaceReadActivity ==
    \E i \in 1..Len(threads) :
        /\ At(i, "read_activity")
        /\ threads' = GotoWith(i, "set_activity", KeepFresh(activity_log))
        /\ UNCHANGED <<raceRest, calls, audit_log, decision_history, activity_log,
                       session_trails, written>>

RaceSetActivity ==
    \E i \in 1..Len(threads) :
        /\ At(i, "set_activity")
        /\ activity_log' = threads[i].snap
        /\ threads' = GotoWith(i, "trail_keys", <<>>)
        /\ UNCHANGED <<raceRest, calls, audit_log, decision_history, session_trails, written>>

\* The next iteration of `for session_id in list(...)`, or the statement after the loop.
NextTrail(todo) == IF todo = {} THEN "cap" ELSE "trail_read"

\* for session_id in list(self.session_trails.keys()):
RaceTrailKeys ==
    \E i \in 1..Len(threads) :
        /\ At(i, "trail_keys")
        /\ threads' = [threads EXCEPT ![i].todo = DOMAIN session_trails,
                                      ![i].pc = NextTrail(DOMAIN session_trails)]
        /\ UNCHANGED <<raceRest, calls, audit_log, decision_history, activity_log,
                       session_trails, written>>

\* The session the loop is at.
Current(i) == CHOOSE s \in threads[i].todo : TRUE

\* The right-hand side of `self.session_trails[session_id] = [...]` is built; a
\* KeyError ends the cleanup in its except branch.
RaceTrailRead ==
    \E i \in 1..Len(threads) :
        /\ At(i, "trail_read")
        /\ threads' = IF Current(i) \in DOMAIN session_trails
                      THEN GotoWith(i, "trail_set", KeepFresh(session_trails[Current(i)]))
                      ELSE Goto(i, "return")
        /\ UNCHANGED <<raceRest, calls, audit_log, decision_history, activity_log,
                       session_trails, written>>

\* ... and stored under the key
RaceTrailSet ==
    \E i \in 1..Len(threads) :
        /\ At(i, "trail_set")
        /\ session_trails' = [s \in DOMAIN session_trails \cup {Current(i)} |->
                                IF s = Current(i) THEN threads[i].snap ELSE session_trails[s]]
        /\ threads' = GotoWith(i, "trail_empty", <<>>)
        /\ UNCHANGED <<raceRest, calls, audit_log, decision_history, activity_log, written>>

\* if not self.session_trails[session_id]:
RaceTrailEmpty ==
    \E i \in 1..Len(threads) :
        /\ At(i, "trail_empty")
        /\ threads' =
              IF Current(i) \notin DOMAIN session_trails THEN Goto(i, "return")
              ELSE IF session_trails[Current(i)] = <<>> THEN Goto(i, "trail_del")
              ELSE [threads EXCEPT ![i].todo = @ \ {Current(i)},
                                   ![i].pc = NextTrail(threads[i].todo \ {Current(i)})]
        /\ UNCHANGED <<raceRest, calls, audit_log, decision_history, activity_log,
                       session_trails, written>>

\* del self.session_trails[session_id]
RaceTrailDel ==
    \E i \in 1..Len(threads) :
        /\ At(i, "trail_del")
        /\ session_trails' = [s \in DOMAIN session_trails \ {Current(i)} |-> session_trails[s]]
        /\ threads' =
              IF Current(i) \notin DOMAIN session_trails THEN Goto(i, "return")
              ELSE [threads EXCEPT ![i].todo = @ \ {Current(i)},
                                   ![i].pc = NextTrail(threads[i].todo \ {Current(i)})]
        /\ UNCHANGED <<raceRest, calls, audit_log, decision_history, activity_log, written>>

\* if len(self.audit_log) > max_log_size: the slice self.audit_log[-max_log_size:] is taken
RaceCap ==
    \E i \in 1..Len(threads) :
        /\ At(i, "cap")
        /\ threads' = IF Len(audit_log) > max_log_size
                      THEN GotoWith(i, "set_cap", LastN(audit_log, max_log_size))
                      ELSE Goto(i, "return")
        /\ UNCHANGED <<raceRest, calls, audit_log, decision_history, activity_log,
                       session_trails, written>>

\* ... and self.audit_log is rebound to it
RaceSetCap ==
    \E i \in 1..Len(threads) :
        /\ At(i, "set_cap")
        /\ audit_log' = threads[i].snap
        /\ threads' = GotoWith(i, "return", <<>>)
        /\ UNCHANGED <<raceRest, calls, decision_history, activity_log, session_trails, written>>

\* return audit_id
RaceReturn ==
    \E i \in 1..Len(threads) :
        /\ At(i, "return")
        /\ threads' = [threads EXCEPT ![i].pc = "done", ![i].ret = threads[i].entry.audit_id]
        /\ UNCHANGED <<raceRest, calls, audit_log, decision_history, activity_log,
                       session_trails, written>>

RaceNext ==
    \/ RaceAlone \/ RaceBegin \/ RaceAppend \/ RaceHistory \/ RaceCheck \/ RaceCreate \/ RaceExtend
    \/ RaceReadAudit \/ RaceSetAudit \/ RaceReadHistory \/ RaceSetHistory
    \/ RaceReadActivity \/ RaceSetActivity
    \/ RaceTrailKeys \/ RaceTrailRead \/ RaceTrailSet \/ RaceTrailEmpty \/ RaceTrailDel
    \/ RaceCap \/ RaceSetCap \/ RaceReturn

SpecRace == Init /\ [][RaceNext]_vars

\* entry is one of the entries of log
Holds(log, entry) == \E k \in 1..Len(log) : log[k] = entry

\* The decision entries written after the entry with this audit_id.
WrittenAfter(audit_id) ==
    Cardinality({k \in 1..Len(written) :
        \E j \in 1..Len(written) : j < k /\ written[j].audit_id = audit_id})

\* C11: every write that returned an audit id is in its log, unless the size cap
\* removed it, and in the trail of its session, in every interleaving of the
\* requests in flight.
C11_NoLostWrite ==
    \A i \in 1..Len(threads) :
        (threads[i].pc = "done" /\ threads[i].ret # NoneId) =>
            /\ threads[i].op = "log_decision" =>
                    \/ Holds(audit_log, threads[i].entry)
                    \/ WrittenAfter(threads[i].entry.audit_id) >= max_log_size
            /\ threads[i].op # "log_decision" => Holds(activity_log, threads[i].entry)
            /\ threads[i].session_id \in DOMAIN session_trails
            /\ Holds(session_trails[threads[i].session_id], threads[i].entry)

-----------------------------------------------------------------------------
(***************************************************************************)
(* Python floats.  The confidences of the reasoner are IEEE-754 doubles:   *)
(* a quotient of two small ints, sums of such quotients and a sum divided  *)
(* by a small int.  All of them are below 8 and, unless zero, at least     *)
(* 1/12, so a double is written here as a fixed-point binary numeral of    *)
(* three limbs of LimbBits bits, most significant first, with three bits   *)
(* before the point; bit 1 is the leading bit of the first limb.  At most  *)
(* Mantissa consecutive bits, starting at the leading one, are set.  Each  *)
(* operation computes the exact result and rounds it to nearest, ties to   *)
(* even, as the hardware does.                                             *)
(***************************************************************************)
Mantissa == 53
LimbBits == 21
Width == 3 * LimbBits
Base == 2 ^ LimbBits

\* The limb bit i lies in, and the weight it has there.
LimbOf(i) == (i - 1) \div LimbBits + 1
Weight(i) == 2 ^ (LimbBits - 1 - ((i - 1) % LimbBits))
Bit(x, i) == (x[LimbOf(i)] \div Weight(i)) % 2

\* float(k) for an int 0 <= k < 8
FromInt(k) == <<k * 2 ^ (LimbBits - 3), 0, 0>>

\* The exact sum of two numerals: limb sums with the carries passed on.
Carried(hi, mid, lo) ==
    <<(hi + (mid + lo \div Base) \div Base) % Base, (mid + lo \div Base) % Base, lo % Base>>
AddBits(a, b) == Carried(a[1] + b[1], a[2] + b[2], a[3] + b[3])

\* The numeral with the single bit `at` set.
Unit(at) == [k \in 1..3 |-> IF k = LimbOf(at) THEN Weight(at) ELSE 0]

\* x cut after bit `last`, and whether rounding to nearest-even goes up there.
Dropped(k, last) ==
    IF last >= k * LimbBits THEN 0
    ELSE IF last <= (k - 1) * LimbBits THEN LimbBits
    ELSE k * LimbBits - last
CutAt(x, last) == [k \in 1..3 |-> x[k] - (x[k] % (2 ^ Dropped(k, last)))]
RoundsUp(x, last, sticky) ==
    /\ last < Width
    /\ Bit(x, last + 1) = 1
    /\ \/ sticky
       \/ \E i \in (last + 2)..Width : Bit(x, i) = 1
       \/ Bit(x, last) = 1
RoundAt(x, last, sticky) ==
    IF RoundsUp(x, last, sticky) THEN AddBits(CutAt(x, last), Unit(last)) ELSE CutAt(x, last)

\* The double nearest to the exact value x (+ something below the last bit if sticky).
Leading(ones) == CHOOSE i \in ones : \A j \in ones : i <= j
RoundToDouble(x, sticky) ==
    IF x = <<0, 0, 0>> THEN x
    ELSE RoundAt(x, Leading({i \in 1..Width : Bit(x, i) = 1}) + Mantissa - 1, sticky)

\* a + b on floats
FloatAdd(a, b) == RoundToDouble(AddBits(a, b), FALSE)

\* Long division of a numeral by a small int, limb by limb: the remainder left
\* after limb k, and the quotient.
RECURSIVE RemAfter(_, _, _)
RemAfter(a, n, k) == IF k = 0 THEN 0 ELSE (RemAfter(a, n, k - 1) * Base + a[k]) % n
DivBits(a, n) == [k \in 1..3 |-> (RemAfter(a, n, k - 1) * Base + a[k]) \div n]

\* a / n for a float a and an int n, and k / n for two ints (true division)
FloatDiv(a, n) == RoundToDouble(DivBits(a, n), RemAfter(a, n, 3) # 0)
TrueDiv(k, n) == FloatDiv(FromInt(k), n)

-----------------------------------------------------------------------------
(***************************************************************************)
(* The reasoning steps.  `parsed` is the dict under "parsed_entities": a   *)
(* function from some of the field names to None or a string.  The query   *)
(* processor fills every field (None where it found nothing); a caller may *)
(* also pass a dict that has only the fields it knows.  A step is modelled *)
(* by the status of the dict it returns, or StepRaised when it raises.     *)
(***************************************************************************)
StepRaised == "<raised>"

\* str.lower() on the texts the model uses
LowerText(s) ==
    CASE s = "Knee Surgery" -> "knee surgery"
      [] s = "Cosmetic Surgery" -> "cosmetic surgery"
      [] s = "Pregnancy Care" -> "pregnancy care"
      [] s = "Diabetes" -> "diabetes"
      [] s = "Pre-Existing Condition" -> "pre-existing condition"
      [] s = "Approved" -> "approved"
      [] s = "Rejected" -> "rejected"
      [] s = "Unclear" -> "unclear"
      [] s = "Unknown" -> "unknown"
      [] OTHER -> s

\* The keywords of the steps that occur in a lower-cased text (`keyword in text`).
KeywordsIn(text) ==
    CASE text = "knee surgery" -> {"knee surgery", "surgery"}
      [] text = "cosmetic surgery" -> {"cosmetic", "surgery"}
      [] text = "pregnancy care" -> {"pregnancy"}
      [] text = "pre-existing condition" -> {"pre-existing"}
      [] OTHER -> {}

\* parsed.get(field, "").lower(): None has no lower()
GetLower(parsed, field) ==
    IF Get(parsed, field, "") = None THEN StepRaised ELSE LowerText(Get(parsed, field, ""))

\* any(proc in text for proc in keywords)
AnyIn(keywords, text) == keywords \cap KeywordsIn(text) # {}

\* int(duration.split()[0]) < 3 for a duration that has "month" in it
MonthsBelow3(duration) == IntOf(FirstWord(duration)) < 3
MonthsRaise(duration) == HasMonth(duration) /\ FirstWord(duration) \notin NumericStrings

VerifyAgeEligibility(parsed) ==
    IF Missing(parsed, "age") THEN "unknown"
    ELSE IF parsed["age"] \notin NumericStrings THEN StepRaised
    ELSE IF IntOf(parsed["age"]) < 18 THEN "restricted"
    ELSE IF IntOf(parsed["age"]) > 65 THEN "restricted"
    ELSE "eligible"

CheckGenderCoverage(parsed) ==
    IF Missing(parsed, "gender") THEN "unknown"
    ELSE IF GetLower(parsed, "procedure") = StepRaised THEN StepRaised
    ELSE IF parsed["gender"] = "F" /\ AnyIn({"pregnancy"}, GetLower(parsed, "procedure"))
         THEN "eligible"
    ELSE IF parsed["gender"] = "M" /\ AnyIn({"pregnancy"}, GetLower(parsed, "procedure"))
         THEN "ineligible"
    ELSE "eligible"

CheckPolicyDuration(parsed) ==
    IF Missing(parsed, "policy_duration") THEN "unknown"
    ELSE IF MonthsRaise(parsed["policy_duration"]) THEN StepRaised
    ELSE IF HasMonth(parsed["policy_duration"]) /\ MonthsBelow3(parsed["policy_duration"])
         THEN "restricted"
    ELSE "eligible"

CheckProcedureEligibility(parsed) ==
    IF Missing(parsed, "procedure") THEN "unknown"
    ELSE IF AnyIn({"knee surgery", "cataract", "angioplasty", "delivery"},
                  LowerText(parsed["procedure"])) THEN "covered"
    ELSE IF AnyIn({"cosmetic", "experimental"}, LowerText(parsed["procedure"])) THEN "excluded"
    ELSE "conditional"

CheckPreAuthorization(parsed) ==
    IF GetLower(parsed, "procedure") = StepRaised THEN StepRaised
    ELSE IF AnyIn({"surgery", "angioplasty", "bypass", "ivf"}, GetLower(parsed, "procedure"))
         THEN "required"
    ELSE "not_required"

CheckNetworkCoverage(parsed) ==
    IF Get(parsed, "location", "") \notin {None, ""} THEN "covered" ELSE "unknown"

AssessMedicalCondition(parsed) ==
    IF Get(parsed, "urgency", "normal") = "high" THEN "complex"
    ELSE IF Get(parsed, "medical_condition", "") \notin {None, ""} THEN "assessed"
    ELSE "standard"

AnalyzeComorbidities(parsed) ==
    IF Get(parsed, "medical_condition", "") \notin {None, ""} THEN "analyzed" ELSE "none"

EvaluateRiskFactors(parsed) ==
    IF ~Missing(parsed, "age") /\ parsed["age"] \notin NumericStrings THEN StepRaised
    ELSE IF \/ ~Missing(parsed, "age") /\ IntOf(parsed["age"]) > 65
            \/ Get(parsed, "medical_condition", "") \notin {None, ""}
         THEN "identified"
    ELSE "low"

CheckWaitingPeriods(parsed) ==
    IF GetLower(parsed, "procedure") = StepRaised THEN StepRaised
    ELSE IF Missing(parsed, "policy_duration") THEN "eligible"
    ELSE IF MonthsRaise(parsed["policy_duration"]) THEN StepRaised
    ELSE IF HasMonth(parsed["policy_duration"]) /\ MonthsBelow3(parsed["policy_duration"])
         THEN "waiting"
    ELSE "eligible"

VerifyExclusions(parsed) ==
    IF GetLower(parsed, "procedure") = StepRaised THEN StepRaised
    ELSE IF GetLower(parsed, "medical_condition") = StepRaised THEN StepRaised
    ELSE IF \/ AnyIn({"cosmetic"}, GetLower(parsed, "procedure"))
            \/ AnyIn({"pre-existing"}, GetLower(parsed, "medical_condition"))
         THEN "excluded"
    ELSE "no_exclusions"

AnalyzeCoverageLimits(parsed) ==
    IF GetLower(parsed, "procedure") = StepRaised THEN StepRaised
    ELSE IF AnyIn({"surgery"}, GetLower(parsed, "procedure"))
         THEN IF Get(parsed, "coverage_type", "basic") = "premium" THEN "high_limit"
              ELSE "standard_limit"
    ELSE "standard"

\* MultiHopReasoner.reasoning_chains with _execute_reasoning_step applied to
\* each step: the statuses of the steps of a chain, in order.
StepResults(chain_name, parsed) ==
    CASE chain_name = "demographic_eligibility" ->
            <<VerifyAgeEligibility(parsed), CheckGenderCoverage(parsed), CheckPolicyDuration(parsed)>>
      [] chain_name = "procedure_coverage" ->
            <<CheckProcedureEligibility(parsed), CheckPreAuthorization(parsed),
              CheckNetworkCoverage(parsed)>>
      [] chain_name = "medical_complexity" ->
            <<AssessMedicalCondition(parsed), AnalyzeComorbidities(parsed),
              EvaluateRiskFactors(parsed)>>
      [] chain_name = "policy_analysis" ->
            <<CheckWaitingPeriods(parsed), VerifyExclusions(parsed), AnalyzeCoverageLimits(parsed)>>

\* MultiHopReasoner._execute_single_chain, and whether one of its steps raises
ChainRaises(chain_name, parsed) == StepRaised \in SeqRange(StepResults(chain_name, parsed))
ExecuteSingleChain(chain_name, parsed) ==
    SingleChainResult(chain_name, StepResults(chain_name, parsed))

\* MultiHopReasoner._calculate_chain_confidence: total_confidence after the
\* first i chains of chain_results, in the order they were stored, and the mean.
RECURSIVE TotalConfidence(_, _)
TotalConfidence(cr, i) ==
    IF i = 0 THEN FromInt(0)
    ELSE FloatAdd(TotalConfidence(cr, i - 1), TrueDiv(cr[i].confidence[1], cr[i].confidence[2]))
CalculateChainConfidence(cr) ==
    IF cr = <<>> THEN FromInt(0) ELSE FloatDiv(TotalConfidence(cr, Len(cr)), Len(cr))

\* What execute_reasoning_chain returns once chain_results is complete, and
\* what its except branch returns.
ReasoningResult(cr) ==
    [reasoning_chains |-> [i \in 1..Len(cr) |-> cr[i].chain_name],
     final_decision |-> SynthesizeResults(cr),
     confidence_score |-> CalculateChainConfidence(cr)]
ReasoningError ==
    [reasoning_chains |-> <<>>,
     final_decision |-> [status |-> "error", reason |-> "exception"]]

\* MultiHopReasoner.execute_reasoning_chain: the active chains run in the order
\* _identify_active_chains lists them.
RunChains(names, parsed) == [i \in 1..Len(names) |-> ExecuteSingleChain(names[i], parsed)]
AnyRaises(names, parsed) == \E i \in 1..Len(names) : ChainRaises(names[i], parsed)
ExecuteReasoningChain(parsed) ==
    IF AnyRaises(IdentifyActiveChains(parsed), parsed) THEN ReasoningError
    ELSE ReasoningResult(RunChains(IdentifyActiveChains(parsed), parsed))

-----------------------------------------------------------------------------
(***************************************************************************)
(* SpecOrder: execute_reasoning_chain with the loop over the active chains *)
(* taken in any order.  chain_results is the dict of the call, in the      *)
(* order its keys were stored.                                             *)
(***************************************************************************)
OrderAges == {None, "46", "70"}
OrderGenders == {None, "M", "F"}
OrderProcedures == {None, "Knee Surgery", "Cosmetic Surgery", "Pregnancy Care"}
OrderLocations == {None, "Pune"}
OrderDurations == {None, "3 months", "2 months"}
OrderConditions == {None, "Diabetes"}
OrderCoverage == {None, "premium"}

\* The dicts _parse_basic returns, and the same entities as a dict that has
\* only the fields that were found.
FullQueries ==
    {[NoEntities EXCEPT !.age = a, !.gender = g, !.procedure = p, !.location = l,
                        !.policy_duration = d, !.medical_condition = m, !.coverage_type = c] :
        a \in OrderAges, g \in OrderGenders, p \in OrderProcedures, l \in OrderLocations,
        d \in OrderDurations, m \in OrderConditions, c \in OrderCoverage}
Found(parsed) == [f \in {g \in DOMAIN parsed : parsed[g] # None} |-> parsed[f]]
OrderQueries == FullQueries \cup {Found(parsed) : parsed \in FullQueries}

Ran == {chain_results[i].chain_name : i \in 1..Len(chain_results)}
ToRun == SeqRange(IdentifyActiveChains(input)) \ Ran

\* One iteration of the loop: a chain that has not run yet runs and its result is stored.
OrderExecuteChain ==
    \E chain_name \in ToRun :
        /\ output = NotRun
        /\ ~ChainRaises(chain_name, input)
        /\ chain_results' = Append(chain_results, ExecuteSingleChain(chain_name, input))
        /\ UNCHANGED <<input, output, nonFn>>

\* A step of the chain raises: the except branch of execute_reasoning_chain returns.
OrderChainRaises ==
    \E chain_name \in ToRun :
        /\ output = NotRun
        /\ ChainRaises(chain_name, input)
        /\ output' = ReasoningError
        /\ UNCHANGED <<input, chain_results, nonFn>>

\* Every active chain has run: synthesis, confidence and return.
OrderSynthesize ==
    /\ output = NotRun
    /\ ToRun = {}
    /\ output' = ReasoningResult(chain_results)
    /\ UNCHANGED <<input, chain_results, nonFn>>

OrderNext == OrderExecuteChain \/ OrderChainRaises \/ OrderSynthesize

InitOrder == InitOn(OrderQueries, {"none"})

SpecOrder == InitOrder /\ [][OrderNext]_vars

\* Status and chain sets of a finished run are those of the run that takes the
\* chains in their listed order.
OrderIndependentVerdict ==
    output # NotRun =>
        /\ output.final_decision.status = ExecuteReasoningChain(input).final_decision.status
        /\ output.final_decision.status # "error" =>
            /\ SeqRange(output.final_decision.supporting_chains)
                    = SeqRange(ExecuteReasoningChain(input).final_decision.supporting_chains)
            /\ SeqRange(output.final_decision.opposing_chains)
                    = SeqRange(ExecuteReasoningChain(input).final_decision.opposing_chains)

Scenario1(parsed) ==
    /\ Get(parsed, "age", None) = "46"
    /\ Get(parsed, "gender", None) = "M"
    /\ LowerText(Get(parsed, "procedure", None)) = "knee surgery"
    /\ Get(parsed, "location", None) = "Pune"
    /\ Get(parsed, "policy_duration", None) = "3 months"
    /\ Get(parsed, "medical_condition", None) = None
    /\ Get(parsed, "urgency", None) = None
    /\ Get(parsed, "coverage_type", None) = None

\* C13: for the entities of Scenario 1 the reasoner runs the demographic, the
\* procedure and the policy chain, no chain verdict is excluded or ineligible,
\* and the final decision is approved with no opposing chain.
C13_Scenario1Approved ==
    (Scenario1(input) /\ output # NotRun) =>
        /\ output.final_decision.status = "approved"
        /\ output.final_decision.opposing_chains = <<>>
        /\ SeqRange(output.reasoning_chains)
                = {"demographic_eligibility", "procedure_coverage", "policy_analysis"}
        /\ \A i \in 1..Len(chain_results) :
                chain_results[i].chain_decision \notin {"excluded", "ineligible"}


-----------------------------------------------------------------------------
(***************************************************************************)
(* SpecSweep: the Cache Manager with every operation of its interface on   *)
(* two categories: puts (with their housekeeping pass), gets, invalidate,  *)
(* clear, and the clock.  Operations run one at a time.                    *)
(***************************************************************************)
MaxSweepSteps == 4     \* cache operations and clock steps per behaviour

SweepCategories == {"query", "document"}
SweepKeys == {"k1", "k2", "k3"}
SweepTickSteps == {150, 300, 3600}
SweepPatterns == {None, "k1"}
SweepKeysOf(c) == IF c = "query" THEN SweepKeys \cup {UnhashableQuery} ELSE SweepKeys

\* `pattern in k` of invalidate_cache, on the keys of the model: the id is part
\* of a document key, and the md5 digest of a query key does not show it.
PatternIn(pattern, c, key) == c # "query" /\ pattern = key[2]

\* invalidate_cache: the entries it deletes from category c
Invalidated(cache_type, pattern, c, d) ==
    IF cache_type = c \/ cache_type = None
    THEN IF pattern \in {None, ""} THEN 1..Len(d)
         ELSE {i \in 1..Len(d) : PatternIn(pattern, c, d[i].key)}
    ELSE {}

\* CacheManager.invalidate_cache
InvalidateCache(cache_type, pattern) ==
    /\ cache' = [c \in Categories |->
                    Keep(cache[c], (1..Len(cache[c])) \ Invalidated(cache_type, pattern, c, cache[c]))]
    /\ cachePrev' = cacheRet
    /\ cacheRet' = [op |-> "invalidate", cat |-> cache_type, key |-> pattern, value |-> "",
                    at |-> now,
                    ret |-> SumSeq([i \in 1..4 |->
                        Cardinality(Invalidated(cache_type, pattern,
                            <<"document", "query", "decision", "reasoning">>[i],
                            cache[<<"document", "query", "decision", "reasoning">>[i]]))])]
    /\ UNCHANGED <<cache_stats, now, focus>>

\* CacheManager.clear_all_caches
ClearAllCaches ==
    /\ cache' = [c \in Categories |-> <<>>]
    /\ cachePrev' = cacheRet
    /\ cacheRet' = [op |-> "clear", cat |-> "", key |-> "", value |-> "", at |-> now,
                    ret |-> SumSeq([i \in 1..4 |->
                        Len(cache[<<"document", "query", "decision", "reasoning">>[i]])])]
    /\ UNCHANGED <<cache_stats, now, focus>>

SweepPut ==
    \E c \in SweepCategories :
        \E k \in SweepKeysOf(c) :
            /\ steps < MaxSweepSteps
            /\ CachePut(c, k, "v1")
            /\ steps' = steps + 1
            /\ UNCHANGED nonCache

SweepGet ==
    \E c \in SweepCategories :
        \E k \in SweepKeysOf(c) :
            /\ steps < MaxSweepSteps
            /\ CacheGet(c, k)
            /\ steps' = steps + 1
            /\ UNCHANGED nonCache

SweepInvalidate ==
    \E cache_type \in SweepCategories \cup {None}, pattern \in SweepPatterns :
        /\ steps < MaxSweepSteps
        /\ InvalidateCache(cache_type, pattern)
        /\ steps' = steps + 1
        /\ UNCHANGED nonCache

SweepClear ==
    /\ steps < MaxSweepSteps
    /\ ClearAllCaches
    /\ steps' = steps + 1
    /\ UNCHANGED nonCache

SweepTick ==
    \E d \in SweepTickSteps :
        /\ steps < MaxSweepSteps
        /\ now + d <= MaxCacheTime
        /\ Tick(d)
        /\ steps' = steps + 1
        /\ UNCHANGED <<cacheVars, nonCache>>

SweepNext == SweepPut \/ SweepGet \/ SweepInvalidate \/ SweepClear \/ SweepTick

InitSweep == InitOn({NotRun}, {"query"})

SpecSweep == InitSweep /\ [][SweepNext]_vars


\* A step in which the housekeeping pass ran: the pass writes its time into
\* cache_stats["last_cleanup"] as its last statement.
PassRan == cache_stats'.last_cleanup # cache_stats.last_cleanup

\* C17: right after a housekeeping pass no category holds an entry whose TTL
\* has expired and every category holds at most max_cache_size entries; a
\* pass comes at least cleanup_interval after the one before it (or after
\* construction), and only inside a put.
C17_PassCleans ==
    [][PassRan =>
        /\ \A c \in Categories :
            /\ \A i \in 1..Len(cache'[c]) : now' - cache'[c][i].timestamp < Ttl(c)
            /\ Len(cache'[c]) <= max_cache_size
        /\ cache_stats'.last_cleanup - cache_stats.last_cleanup >= cleanup_interval
        /\ cache_stats'.last_cleanup = now
        /\ now' = now
        /\ cacheRet'.op = "put"
        /\ cacheRet'.ret = "True"
        /\ cacheRet'.at = now]_vars

\* A put into one category whose pass removed the entry an earlier put had
\* written into another category, a TTL or more before.
C17_Witness ==
    /\ cacheRet.op = "put"
    /\ cacheRet.ret = "True"
    /\ cacheRet.at = now
    /\ cache_stats.last_cleanup = now
    /\ cachePrev.op = "put"
    /\ cachePrev.ret = "True"
    /\ cachePrev.cat # cacheRet.cat
    /\ now - cachePrev.at >= Ttl(cachePrev.cat)
    /\ Index(cache[cachePrev.cat], CacheKey(cachePrev.cat, cachePrev.key)) = 0
    /\ Len(cache[cacheRet.cat]) = 1

EntrySet(d) == {d[i] : i \in 1..Len(d)}

\* The entry a put step has written
PutEntry ==
    [key |-> CacheKey(cacheRet'.cat, cacheRet'.key), value |-> cacheRet'.value,
     timestamp |-> cacheRet'.at, access_count |-> 0]

\* What the size enforcement of a pass finds in category c: the entries of
\* the category, with the one the put has written, that are within their TTL.
AtEnforcement(c) ==
    {e \in EntrySet(IF c = cacheRet'.cat THEN DictSet(cache[c], PutEntry) ELSE cache[c]) :
        now - e.timestamp < Ttl(c)}

Evicted(c) == AtEnforcement(c) \ EntrySet(cache'[c])

\* (access_count, timestamp) of e is no greater than that of r
NoGreater(e, r) ==
    \/ e.access_count < r.access_count
    \/ e.access_count = r.access_count /\ e.timestamp <= r.timestamp

\* C18: a size enforcement that finds n > max_cache_size entries in a
\* category evicts exactly n - max_cache_size of them (none otherwise), no
\* evicted entry has a greater (access_count, timestamp) than a retained one,
\* and the evictions counter grows by the number evicted; entries removed
\* because their TTL expired are not counted, and a step without a pass
\* (invalidate, clear, get, a put between passes) leaves the counter alone.
C18_EvictsLowest ==
    [][IF PassRan
       THEN /\ \A c \in Categories :
                /\ EntrySet(cache'[c]) \subseteq AtEnforcement(c)
                /\ Cardinality(Evicted(c)) =
                       IF Cardinality(AtEnforcement(c)) > max_cache_size
                       THEN Cardinality(AtEnforcement(c)) - max_cache_size ELSE 0
                /\ \A e \in Evicted(c) : \A r \in EntrySet(cache'[c]) : NoGreater(e, r)
            /\ cache_stats'.evictions = cache_stats.evictions +
                   SumSeq([i \in 1..4 |->
                       Cardinality(Evicted(<<"document", "query", "decision", "reasoning">>[i]))])
       ELSE cache_stats'.evictions = cache_stats.evictions]_vars

\* A pass that evicted the entry just put (never read, newest) and kept an
\* older entry that had been read.
C18_Witness ==
    /\ cacheRet.op = "put"
    /\ cacheRet.ret = "True"
    /\ cache_stats.last_cleanup = cacheRet.at
    /\ cache_stats.evictions = 1
    /\ Index(cache[cacheRet.cat], CacheKey(cacheRet.cat, cacheRet.key)) = 0
    /\ \E i \in 1..Len(cache[cacheRet.cat]) :
        /\ cache[cacheRet.cat][i].access_count = 1
        /\ cache[cacheRet.cat][i].timestamp < cacheRet.at


\* A step that is one get call
GetStep == steps' = steps + 1 /\ now' = now /\ cacheRet'.op = "get"

\* The place in its category of the entry a get step looked up, 0 if there is none
Looked == Index(cache[cacheRet'.cat], CacheKey(cacheRet'.cat, cacheRet'.key))

LookedExpired ==
    /\ Looked # 0
    /\ now - cache[cacheRet'.cat][Looked].timestamp >= Ttl(cacheRet'.cat)

\* C19: a get that finds an entry whose TTL has expired removes it: the
\* entry is not in its category after the get.
C19_ExpiredRemovedOnGet ==
    [][(GetStep /\ LookedExpired) =>
            Index(cache'[cacheRet'.cat], CacheKey(cacheRet'.cat, cacheRet'.key)) = 0]_vars

\* What the code does with it: the get returns None, counts a miss, and
\* leaves every category as it was.
ExpiredStaysOnGet ==
    [][(GetStep /\ LookedExpired) =>
            /\ cacheRet'.ret = "None"
            /\ cache_stats'.misses = cache_stats.misses + 1
            /\ cache' = cache]_vars

\* What a counted get does: one more hit exactly when it returns a value, one
\* more miss otherwise, a miss when the key is absent or expired, and one
\* more access on the entry it returned and on no other.
GetCounted ==
    /\ \/ /\ cache_stats'.hits = cache_stats.hits + 1
          /\ cache_stats'.misses = cache_stats.misses
       \/ /\ cache_stats'.hits = cache_stats.hits
          /\ cache_stats'.misses = cache_stats.misses + 1
    /\ cache_stats'.hits = cache_stats.hits + 1 <=> cacheRet'.ret # "None"
    /\ (Looked = 0 \/ LookedExpired) => cache_stats'.misses = cache_stats.misses + 1
    /\ \A c \in Categories :
        /\ Len(cache'[c]) = Len(cache[c])
        /\ \A j \in 1..Len(cache[c]) :
            cache'[c][j].access_count = cache[c][j].access_count +
                (IF cacheRet'.ret # "None" /\ c = cacheRet'.cat /\ j = Looked THEN 1 ELSE 0)

\* C20: every get adds one to exactly one of hits and misses: to hits exactly
\* when it returns a value, to misses when the key is absent or expired; a
\* hit adds one to the access_count of the entry it returned and changes no
\* other; and no other operation (put, invalidate, clear) changes hits or
\* misses, so hits + misses is the number of gets made.
C20_GetsCounted ==
    [][IF GetStep
       THEN GetCounted
       ELSE /\ cache_stats'.hits = cache_stats.hits
            /\ cache_stats'.misses = cache_stats.misses]_vars

\* What the code keeps: a get whose key can be computed is counted, one whose
\* key cannot (the handler's except branch returns None) changes neither
\* counter, and no other operation changes them.
GetsWithKeyCounted ==
    [][IF GetStep
       THEN IF KeyRaises(cacheRet'.cat, cacheRet'.key)
            THEN cacheRet'.ret = "None" /\ cache_stats' = cache_stats /\ cache' = cache
            ELSE GetCounted
       ELSE /\ cache_stats'.hits = cache_stats.hits
            /\ cache_stats'.misses = cache_stats.misses]_vars


-----------------------------------------------------------------------------
(***************************************************************************)
(* SpecRetain: audit writes with the clock moving a day or a retention     *)
(* period between them, so that entries get older than retention_days.     *)
(***************************************************************************)
MaxRetainTicks == 2    \* clock steps per behaviour

RetainTickSteps == {DaySeconds, retention_days * DaySeconds}

RetainTick ==
    \E d \in RetainTickSteps :
        /\ steps < MaxRetainTicks
        /\ Tick(d)
        /\ steps' = steps + 1
        /\ UNCHANGED <<auditVars, cacheVars, fnVars, runOut, threads, apiVars>>

RetainNext == AuditLogDecision \/ AuditLogActivity \/ AuditLogError \/ RetainTick

InitRetain == InitOn({NotRun}, {"none"})

SpecRetain == InitRetain /\ [][RetainNext]_vars

\* A step that is one log_* call
WriteStep == calls' = calls + 1

Older(e, t) == t - e.timestamp > retention_days * DaySeconds
Younger(e, t) == t - e.timestamp < retention_days * DaySeconds

\* Every entry of `before` that is younger than retention_days is in `after`
YoungKept(before, after, t) ==
    \A i \in 1..Len(before) :
        Younger(before[i], t) => \E j \in 1..Len(after) : after[j] = before[i]

\* The retention state the claim describes, of the collections after a call
Retained ==
    /\ \A i \in 1..Len(audit_log') : ~Older(audit_log'[i], now')
    /\ \A i \in 1..Len(decision_history') : ~Older(decision_history'[i], now')
    /\ \A i \in 1..Len(activity_log') : ~Older(activity_log'[i], now')
    /\ \A s \in DOMAIN session_trails' :
        /\ session_trails'[s] # <<>>
        /\ \A i \in 1..Len(session_trails'[s]) : ~Older(session_trails'[s][i], now')
    /\ YoungKept(decision_history, decision_history', now)
    /\ YoungKept(activity_log, activity_log', now)
    /\ \A s \in DOMAIN session_trails :
        /\ (\E i \in 1..Len(session_trails[s]) : Younger(session_trails[s][i], now))
                => s \in DOMAIN session_trails'
        /\ s \in DOMAIN session_trails' => YoungKept(session_trails[s], session_trails'[s], now)

\* C21: after every audit write returns, no entry older than retention_days
\* remains in audit_log, decision_history, activity_log or a session trail,
\* no session trail is empty, and no entry younger than retention_days was
\* removed from decision_history, activity_log or a session trail.
C21_RetentionOnWrite == [][WriteStep => Retained]_vars

\* What the code keeps: the same of every write that returns its audit id.
RetentionOnReturnedId == [][(WriteStep /\ auditRet'.ret # NoneId) => Retained]_vars


-----------------------------------------------------------------------------
(***************************************************************************)
(* The Consistency Validator.  A decision is its status, amount and        *)
(* confidence (in hundredths); an amount "Rs.50000" stands for the         *)
(* source's string with the rupee sign.  A warning or a pattern match is   *)
(* the tuple of its fixed text and the values it is formatted with.        *)
(* historical_cases is not handed over (QAChain.run never does).           *)
(***************************************************************************)
\* ConsistencyValidator._get_age_category
GetAgeCategory(age) ==
    IF age < 18 THEN "pediatric"
    ELSE IF age < 65 THEN "adult"
    ELSE "geriatric"

\* decision_patterns["age_based"][category]["typical_decisions"]
TypicalDecisions(category) ==
    CASE category = "pediatric" -> {"approved", "conditional"}
      [] category = "adult" -> {"approved", "rejected", "conditional"}
      [] category = "geriatric" -> {"conditional", "rejected"}

\* ConsistencyValidator._get_procedure_category, on a lower-cased procedure
GetProcedureCategory(procedure) ==
    CASE procedure = "knee surgery" -> "knee_surgery"
      [] procedure = "heart bypass" -> "heart_bypass"
      [] procedure = "cataract surgery" -> "cataract"
      [] procedure = "cosmetic surgery" -> "cosmetic"
      [] OTHER -> "general"

\* decision_patterns["procedure_based"]: typical_amount and confidence_range
ProcedurePatterns == {"knee_surgery", "heart_bypass", "cataract", "cosmetic"}
TypicalAmount(category) ==
    CASE category = "knee_surgery" -> "Rs.50000"
      [] category = "heart_bypass" -> "Rs.100000"
      [] category = "cataract" -> "Rs.25000"
      [] category = "cosmetic" -> "Rs.0"
ConfidenceRange(category) ==
    CASE category = "knee_surgery" -> <<70, 100>>
      [] category = "heart_bypass" -> <<80, 100>>
      [] category = "cataract" -> <<60, 90>>
      [] category = "cosmetic" -> <<90, 100>>

\* historical_patterns["amount_ranges"]: min and max, parsed
AmountRanges == {"knee_surgery", "heart_bypass", "cataract"}
AmountRange(category) ==
    CASE category = "knee_surgery" -> <<40000, 60000>>
      [] category = "heart_bypass" -> <<80000, 120000>>
      [] category = "cataract" -> <<20000, 30000>>

\* ConsistencyValidator._parse_amount: the digits of the string, 0.0 when float() raises
ParseAmount(amount) ==
    CASE amount = "Rs.50000" -> 50000
      [] amount = "Rs.100000" -> 100000
      [] amount = "Rs.30000" -> 30000
      [] amount = "Rs.0" -> 0
      [] OTHER -> 0

\* ConsistencyValidator._extract_duration_months: 0 when anything raises
ExtractDurationMonths(duration) ==
    IF FirstWord(duration) \notin NumericStrings THEN 0
    ELSE IF HasMonth(duration) THEN IntOf(FirstWord(duration))
    ELSE IF duration = "2 years" THEN IntOf(FirstWord(duration)) * 12
    ELSE 0

\* ConsistencyValidator._get_duration_category
GetDurationCategory(months) ==
    IF months < 3 THEN "short"
    ELSE IF months < 12 THEN "medium"
    ELSE "long"

\* historical_patterns["decision_frequency"].get(status, 0.0), in hundredths
DecisionFrequency(status) ==
    CASE status = "approved" -> 65
      [] status = "rejected" -> 25
      [] status = "conditional" -> 10
      [] OTHER -> 0

AgeWarning(status, category) == <<"unusual for age category", status, category>>

\* The age block of _validate_against_patterns
AgePattern(status, parsed) ==
    IF Missing(parsed, "age") THEN [warnings |-> <<>>, pattern_matches |-> <<>>]
    ELSE IF status \notin TypicalDecisions(GetAgeCategory(IntOf(parsed["age"])))
    THEN [warnings |-> <<AgeWarning(status, GetAgeCategory(IntOf(parsed["age"])))>>,
          pattern_matches |-> <<>>]
    ELSE [warnings |-> <<>>,
          pattern_matches |-> << <<"Age-based decision pattern matches",
                                    GetAgeCategory(IntOf(parsed["age"]))>> >>]

\* The procedure block of _validate_against_patterns, for a category with a pattern
ProcedureWarnings(decision, status, category) ==
    (IF decision.amount # TypicalAmount(category) /\ status = "approved"
     THEN << <<"Amount differs from typical", decision.amount, category>> >> ELSE <<>>)
    \o (IF ConfidenceRange(category)[1] <= decision.confidence
           /\ decision.confidence <= ConfidenceRange(category)[2]
        THEN <<>> ELSE << <<"Confidence outside typical range", category>> >>)

ProcedurePattern(decision, status, parsed) ==
    IF Missing(parsed, "procedure")
       \/ GetProcedureCategory(LowerText(parsed["procedure"])) \notin ProcedurePatterns
    THEN [warnings |-> <<>>, pattern_matches |-> <<>>]
    ELSE [warnings |->
              ProcedureWarnings(decision, status,
                                GetProcedureCategory(LowerText(parsed["procedure"]))),
          pattern_matches |->
              IF ConfidenceRange(GetProcedureCategory(LowerText(parsed["procedure"])))[1]
                     <= decision.confidence
                 /\ decision.confidence
                     <= ConfidenceRange(GetProcedureCategory(LowerText(parsed["procedure"])))[2]
              THEN << <<"Procedure-based pattern matches",
                        GetProcedureCategory(LowerText(parsed["procedure"]))>> >>
              ELSE <<>>]

\* The policy duration block of _validate_against_patterns
DurationPattern(status, parsed) ==
    IF Missing(parsed, "policy_duration") THEN [warnings |-> <<>>, pattern_matches |-> <<>>]
    ELSE IF GetDurationCategory(ExtractDurationMonths(parsed["policy_duration"])) = "short"
            /\ status = "approved"
    THEN [warnings |-> << <<"Approval with high-risk policy duration", "short">> >>,
          pattern_matches |-> <<>>]
    ELSE [warnings |-> <<>>,
          pattern_matches |-> << <<"Policy duration pattern matches",
              GetDurationCategory(ExtractDurationMonths(parsed["policy_duration"]))>> >>]

\* ConsistencyValidator._validate_against_patterns
ValidateAgainstPatterns(decision, parsed) ==
    [warnings |-> AgePattern(LowerText(decision.status), parsed).warnings
                  \o ProcedurePattern(decision, LowerText(decision.status), parsed).warnings
                  \o DurationPattern(LowerText(decision.status), parsed).warnings,
     anomalies |-> <<>>,
     pattern_matches |->
        AgePattern(LowerText(decision.status), parsed).pattern_matches
        \o ProcedurePattern(decision, LowerText(decision.status), parsed).pattern_matches
        \o DurationPattern(LowerText(decision.status), parsed).pattern_matches]

\* ConsistencyValidator._validate_decision_frequency
ValidateDecisionFrequency(decision) ==
    [warnings |-> IF DecisionFrequency(LowerText(decision.status)) < 10
                  THEN << <<"low historical frequency", LowerText(decision.status)>> >>
                  ELSE <<>>]

\* ConsistencyValidator._validate_amount_consistency
ValidateAmountConsistency(decision, parsed) ==
    [warnings |->
        IF Missing(parsed, "procedure") \/ LowerText(decision.status) # "approved"
           \/ GetProcedureCategory(LowerText(parsed["procedure"])) \notin AmountRanges
        THEN <<>>
        ELSE IF ParseAmount(decision.amount)
                    < AmountRange(GetProcedureCategory(LowerText(parsed["procedure"])))[1]
        THEN << <<"Amount below typical minimum", decision.amount>> >>
        ELSE IF ParseAmount(decision.amount)
                    > AmountRange(GetProcedureCategory(LowerText(parsed["procedure"])))[2]
        THEN << <<"Amount above typical maximum", decision.amount>> >>
        ELSE <<>>,
     anomalies |-> <<>>]

Min(a, b) == IF a < b THEN a ELSE b
Max(a, b) == IF a > b THEN a ELSE b

\* ConsistencyValidator._calculate_consistency_score, in hundredths.  The score
\* decides is_consistent only when there is no warning and no anomaly, and
\* then it is 1.0 exactly in floating point too.
CalculateConsistencyScore(results) ==
    Max(0, Min(100, 100 - Min(Len(results.warnings) * 10, 50)
                        - Min(Len(results.anomalies) * 20, 50)
                        + Min(Len(results.pattern_matches) * 5, 20)))

\* dict.update: the keys of `other` replace those of `d`
Update(d, other) ==
    [k \in DOMAIN d \cup DOMAIN other |-> IF k \in DOMAIN other THEN other[k] ELSE d[k]]

\* validation_results after the four steps of validate_decision_consistency
ValidationResults(decision, parsed) ==
    Update(Update(Update([is_consistent |-> TRUE, confidence_score |-> 0, warnings |-> <<>>,
                          anomalies |-> <<>>, pattern_matches |-> <<>>,
                          historical_comparison |-> <<>>],
                         ValidateAgainstPatterns(decision, parsed)),
                  ValidateDecisionFrequency(decision)),
           ValidateAmountConsistency(decision, parsed))

\* What raises inside the try block: None.lower() on a status that is None and
\* int() on an age that is no number.
ConsistencyRaises(decision, parsed) ==
    \/ decision.status = None
    \/ ~Missing(parsed, "age") /\ parsed["age"] \notin NumericStrings

Scored(results) ==
    [results EXCEPT !.confidence_score = CalculateConsistencyScore(results),
                    !.is_consistent = /\ Len(results.warnings) = 0
                                      /\ Len(results.anomalies) = 0
                                      /\ CalculateConsistencyScore(results) > 70]

\* ConsistencyValidator.validate_decision_consistency
ValidateDecisionConsistency(decision, parsed) ==
    IF ConsistencyRaises(decision, parsed)
    THEN [is_consistent |-> FALSE, confidence_score |-> 0, error |-> "exception",
          warnings |-> << <<"Consistency validation failed">> >>, anomalies |-> <<>>]
    ELSE Scored(ValidationResults(decision, parsed))

(***************************************************************************)
(* SpecConsistency: validate_decision_consistency on any decision and any  *)
(* parsed query.                                                           *)
(***************************************************************************)
ConsistencyStatuses == {"approved", "rejected", "conditional", "unclear", None}
ConsistencyAmounts == {"Rs.50000", "Rs.100000", "Rs.30000", "Rs.0", "N/A"}
ConsistencyConfidences == {50, 85, 95}
ConsistencyAges == {None, "10", "17", "18", "46", "64", "65", "66", "70", "abc"}
ConsistencyProcedures == {None, "knee surgery", "Cosmetic Surgery", "dental"}
ConsistencyDurations == {None, "1 month", "3 months", "2 years", "few months"}

ConsistencyInputs ==
    {[decision |-> [status |-> st, amount |-> am, confidence |-> cf],
      parsed |-> [age |-> a, procedure |-> p, policy_duration |-> d]] :
        st \in ConsistencyStatuses, am \in ConsistencyAmounts, cf \in ConsistencyConfidences,
        a \in ConsistencyAges, p \in ConsistencyProcedures, d \in ConsistencyDurations}

ConsistencyApply ==
    /\ output = NotRun
    /\ output' = ValidateDecisionConsistency(input.decision, input.parsed)
    /\ UNCHANGED <<input, chain_results, nonFn>>

ConsistencyNext == ConsistencyApply

InitConsistency == InitOn(ConsistencyInputs, {"none"})

SpecConsistency == InitConsistency /\ [][ConsistencyNext]_vars

\* The status is not in the typical-decision set of the age bracket of the query
Untypical(decision, parsed) ==
    /\ ~Missing(parsed, "age")
    /\ parsed["age"] \in NumericStrings
    /\ decision.status # None
    /\ decision.status \notin
            (IF IntOf(parsed["age"]) < 18 THEN {"approved", "conditional"}
             ELSE IF IntOf(parsed["age"]) <= 65 THEN {"approved", "rejected", "conditional"}
             ELSE {"conditional", "rejected"})

HasAgeWarning(report) ==
    \E i \in 1..Len(report.warnings) : report.warnings[i][1] = "unusual for age category"

\* C22: when the status of the decision is not in the typical-decision set
\* of the age bracket of the query, the report holds a warning about it in
\* its warnings and is_consistent is false.
C22_UntypicalWarned ==
    (output # NotRun /\ Untypical(input.decision, input.parsed)) =>
        /\ HasAgeWarning(output)
        /\ ~output.is_consistent

\* What the code returns: the warnings of the last step alone (the amounts),
\* never one about the age.
AgeWarningDropped ==
    output # NotRun =>
        /\ ~HasAgeWarning(output)
        /\ "error" \notin DOMAIN output =>
              /\ output.warnings =
                     ValidateAmountConsistency(input.decision, input.parsed).warnings
              /\ output.is_consistent <=> output.warnings = <<>>


-----------------------------------------------------------------------------
(***************************************************************************)
(* SpecAge: the age bracket of the Consistency Validator and the age step  *)
(* of the reasoner, on every age the query validation lets through and     *)
(* the first one beyond.                                                   *)
(***************************************************************************)
AgeInputs == {[age |-> ToString(n)] : n \in AgeRange}

AgeApply ==
    /\ output = NotRun
    /\ output' = [age_category |-> GetAgeCategory(IntOf(input["age"])),
                  age_eligibility |-> VerifyAgeEligibility(input)]
    /\ UNCHANGED <<input, chain_results, nonFn>>

AgeNext == AgeApply

InitAge == InitOn(AgeInputs, {"none"})

SpecAge == InitAge /\ [][AgeNext]_vars

\* C25: the validator classifies an age below 18 as pediatric, from 18 to 65
\* inclusive as adult and above 65 as geriatric, the boundaries of the
\* reasoner's age step: restricted below 18 and above 65, eligible between.
C25_AgeBrackets ==
    output # NotRun =>
        /\ output.age_category =
              (IF IntOf(input["age"]) < 18 THEN "pediatric"
               ELSE IF IntOf(input["age"]) <= 65 THEN "adult"
               ELSE "geriatric")
        /\ output.age_eligibility = "eligible" <=> output.age_category = "adult"
        /\ output.age_eligibility = "restricted" <=> output.age_category # "adult"

\* What the code does: the two agree on every age but 65, which the reasoner
\* finds eligible and the validator geriatric.
AgeBracketsBut65 ==
    output # NotRun =>
        /\ output.age_eligibility = (IF IntOf(input["age"]) < 18 \/ IntOf(input["age"]) > 65
                                     THEN "restricted" ELSE "eligible")
        /\ output.age_category =
              (IF IntOf(input["age"]) < 18 THEN "pediatric"
               ELSE IF IntOf(input["age"]) < 65 THEN "adult"
               ELSE "geriatric")


-----------------------------------------------------------------------------
(***************************************************************************)
(* The Decision Explainer.  A rendered text is the name of its template    *)
(* and the value of each of its slots.  The reasoning result handed over   *)
(* has no chains and there is no consistency report, so the evidence is    *)
(* its fixed text; confidences are 0.0, 0.5 and 1.0, in hundredths.        *)
(***************************************************************************)
\* The slots of explanation_templates[name]["template"]
TemplateSlots(name) ==
    CASE name = "approved" -> {"procedure", "amount", "factors", "evidence", "confidence"}
      [] name = "rejected" -> {"procedure", "factors", "evidence", "confidence"}
      [] name = "conditional" -> {"procedure", "factors", "evidence", "next_steps", "confidence"}
      [] name = "unclear" -> {"procedure", "factors", "missing_info", "recommendations",
                              "confidence"}

\* self.explanation_templates.get(decision_status, self.explanation_templates["unclear"])
TemplateFor(decision_status) ==
    IF decision_status \in {"approved", "rejected", "conditional", "unclear"}
    THEN decision_status ELSE "unclear"

\* DecisionExplainer._generate_factors without reasoning chains: one bullet for
\* each field given, its fixed text when there is none or int(age) raises.
GenerateFactors(parsed) ==
    IF ~Missing(parsed, "age") /\ parsed["age"] \notin NumericStrings
    THEN <<"Standard policy review completed">>
    ELSE IF Missing(parsed, "age") /\ Missing(parsed, "procedure")
    THEN <<"Standard policy review completed">>
    ELSE (IF Missing(parsed, "age") THEN <<>>
          ELSE IF IntOf(parsed["age"]) < 18 THEN <<"Pediatric patient">>
          ELSE IF IntOf(parsed["age"]) > 65 THEN <<"Geriatric patient">>
          ELSE <<"Age within standard coverage range">>)
         \o (IF Missing(parsed, "procedure") THEN <<>> ELSE <<"Procedure coverage verified">>)

\* DecisionExplainer._generate_missing_info
GenerateMissingInfo(parsed) ==
    (IF Missing(parsed, "age") THEN <<"Patient age">> ELSE <<>>)
    \o (IF Missing(parsed, "procedure") THEN <<"Specific procedure details">> ELSE <<>>)
    \o <<"Policy duration information", "Treatment location",
         "Complete medical documentation", "Supporting medical reports",
         "Detailed cost breakdown">>

\* DecisionExplainer._generate_recommendations
GenerateRecommendations(parsed) ==
    <<"Provide complete medical documentation", "Include detailed procedure information",
      "Submit supporting medical reports", "Contact customer service for assistance">>
    \o (IF Missing(parsed, "age") THEN <<"Specify patient age">> ELSE <<>>)
    \o (IF Missing(parsed, "procedure") THEN <<"Provide specific procedure details">> ELSE <<>>)

\* DecisionExplainer._generate_next_steps
GenerateNextSteps(parsed) ==
    IF Get(parsed, "procedure", "") = None THEN <<"Contact customer service for guidance">>
    ELSE <<"Submit complete medical documentation", "Provide detailed procedure information",
           "Include supporting medical reports">>
         \o (IF "surgery" \in KeywordsIn(LowerText(Get(parsed, "procedure", "")))
             THEN <<"Obtain pre-authorization", "Submit surgeon's recommendation">> ELSE <<>>)
         \o (IF "cosmetic" \in KeywordsIn(LowerText(Get(parsed, "procedure", "")))
             THEN <<"Provide medical necessity documentation", "Submit detailed cost breakdown">>
             ELSE <<>>)

\* format_kwargs
FormatKwargs(decision, decision_status, parsed) ==
    LET base == [procedure |-> Get(parsed, "procedure", "the procedure"),
                 amount |-> Get(decision, "amount", "N/A"),
                 factors |-> GenerateFactors(parsed),
                 evidence |-> <<"Policy terms and conditions reviewed">>,
                 confidence |-> Get(decision, "confidence", 0)]
    IN IF decision_status = "conditional"
       THEN Update(base, [next_steps |-> GenerateNextSteps(parsed)])
       ELSE IF decision_status = "unclear"
       THEN Update(base, [missing_info |-> GenerateMissingInfo(parsed),
                          recommendations |-> GenerateRecommendations(parsed)])
       ELSE base

\* template["template"].format(**format_kwargs): KeyError on a slot without a value
Format(name, kwargs) ==
    IF TemplateSlots(name) \subseteq DOMAIN kwargs
    THEN [template |-> name, slots |-> [k \in TemplateSlots(name) |-> kwargs[k]]]
    ELSE Raised

ExplanationError == [explanation_text |-> "Error generating explanation", error |-> "exception"]

\* DecisionExplainer.generate_explanation
GenerateExplanation(decision, parsed) ==
    IF Get(decision, "status", "unknown") = None
    THEN ExplanationError        \* None.lower()
    ELSE IF Format(TemplateFor(LowerText(Get(decision, "status", "unknown"))),
                   FormatKwargs(decision, LowerText(Get(decision, "status", "unknown")),
                                parsed)) = Raised
    THEN ExplanationError
    ELSE [explanation_text |->
              Format(TemplateFor(LowerText(Get(decision, "status", "unknown"))),
                     FormatKwargs(decision, LowerText(Get(decision, "status", "unknown")),
                                  parsed)),
          template_used |-> LowerText(Get(decision, "status", "unknown"))]

(***************************************************************************)
(* SpecExplain: generate_explanation on any decision and parsed query.     *)
(***************************************************************************)
ExplainStatuses ==
    {"approved", "rejected", "conditional", "unclear", "error", "unknown",
     "Approved", "Rejected", "Unclear", "Unknown", None}
ExplainDecisions ==
    {[status |-> st, amount |-> am, confidence |-> cf] :
        st \in ExplainStatuses, am \in {"N/A", "Rs.50000"}, cf \in {0, 50, 100}}
    \cup {[amount |-> am, confidence |-> cf] : am \in {"N/A", "Rs.50000"}, cf \in {0, 50, 100}}
ExplainParsed ==
    {[age |-> a, procedure |-> p] :
        a \in {None, "10", "46", "70", "abc"}, p \in {None, "knee surgery", "Cosmetic Surgery"}}
    \cup {[age |-> a] : a \in {None, "46"}}

ExplainInputs == {[decision |-> d, parsed |-> p] : d \in ExplainDecisions, p \in ExplainParsed}

ExplainApply ==
    /\ output = NotRun
    /\ output' = GenerateExplanation(input.decision, input.parsed)
    /\ UNCHANGED <<input, chain_results, nonFn>>

ExplainNext == ExplainApply

InitExplain == InitOn(ExplainInputs, {"none"})

SpecExplain == InitExplain /\ [][ExplainNext]_vars

\* The lower-cased status of the decision handed over, "unknown" when it has none
StatusGiven ==
    IF Get(input.decision, "status", "unknown") = None THEN "unknown"
    ELSE LowerText(Get(input.decision, "status", "unknown"))

\* C23: for every status the explanation is rendered from a template with
\* all of its slots filled: approved, rejected, conditional and unclear from
\* their own template, any other status (error, unknown, none given) from
\* the unclear template with missing_info and recommendations; never the
\* error fallback.
C23_EverySlotFilled ==
    output # NotRun =>
        /\ "error" \notin DOMAIN output
        /\ output.explanation_text.template = TemplateFor(StatusGiven)
        /\ DOMAIN output.explanation_text.slots =
               TemplateSlots(output.explanation_text.template)

\* What the code does: the four statuses with a template of their own are
\* rendered, every other status ends in the error fallback.
OwnTemplateRendered ==
    output # NotRun =>
        IF Get(input.decision, "status", "unknown") # None
           /\ LowerText(Get(input.decision, "status", "unknown"))
               \in {"approved", "rejected", "conditional", "unclear"}
        THEN /\ "error" \notin DOMAIN output
             /\ output.explanation_text.template =
                    LowerText(Get(input.decision, "status", "unknown"))
             /\ DOMAIN output.explanation_text.slots =
                    TemplateSlots(output.explanation_text.template)
        ELSE output = ExplanationError

-----------------------------------------------------------------------------
(***************************************************************************)
(* SpecHistory: decisions are logged and the decision history is read      *)
(* back, unfiltered or filtered on a session or a user.                    *)
(***************************************************************************)
HistoryUsers == {"u1", "u2"}
HistoryLimits == {1, 2, 100}

\* The copy get_decision_history makes of one value of a stored decision.
HistoryCopyItem(v) ==
    IF v.t \in {"none", "num", "str"} THEN v ELSE Stringify(v, ItemLimit)

HistoryCopyValue(v) ==
    IF v.t \in {"none", "num", "str"} THEN v
    ELSE IF v.t = "dict"
    THEN PDict([i \in 1..Len(v.items) |-> <<v.items[i][1], HistoryCopyItem(v.items[i][2])>>])
    ELSE IF v.t = "list"
    THEN PList([i \in 1..Len(v.items) |-> HistoryCopyItem(v.items[i])])
    ELSE Stringify(v, ItemLimit)

\* safe_decision: the copy of a decision_history entry, key by key.  The
\* audit id, the timestamp and the query summary are a str each.
HistoryCopy(decision) ==
    [key \in DOMAIN decision |->
        IF key \in {"decision", "amount", "confidence"}
        THEN HistoryCopyValue(decision[key]) ELSE decision[key]]

\* The loop of get_decision_history from entry i on, filtered_history being acc.
RECURSIVE FilterHistory(_, _, _, _, _, _)
FilterHistory(history, i, acc, session_id, user_id, limit) ==
    IF i > Len(history) THEN acc
    ELSE IF session_id # None /\ Get(HistoryCopy(history[i]), "session_id", None) # session_id
    THEN FilterHistory(history, i + 1, acc, session_id, user_id, limit)
    ELSE IF user_id # None /\ Get(HistoryCopy(history[i]), "user_id", None) # user_id
    THEN FilterHistory(history, i + 1, acc, session_id, user_id, limit)
    ELSE IF Len(acc) + 1 >= limit THEN Append(acc, HistoryCopy(history[i]))
    ELSE FilterHistory(history, i + 1, Append(acc, HistoryCopy(history[i])),
                       session_id, user_id, limit)

\* AuditTrail.get_decision_history
GetDecisionHistory(history, session_id, user_id, limit) ==
    FilterHistory(history, 1, <<>>, session_id, user_id, limit)

HistoryLogDecision ==
    \E s \in Sessions, u \in HistoryUsers :
        /\ calls < MaxCalls
        /\ SetAudit(LogDecision(AuditState, now, s, u, "q", ApprovedDecision, PDict(<<>>),
                                PDict(<<>>), PNone))
        /\ UNCHANGED <<now, nonAudit>>

\* QAChain.get_decision_history(session_id, user_id, limit=l); `at` is the
\* number of writes made before the read.
HistoryGet ==
    \E s \in Sessions \cup {None}, u \in HistoryUsers \cup {None}, l \in HistoryLimits :
        /\ output' = [session_id |-> s, user_id |-> u, limit |-> l, at |-> calls,
                      ret |-> GetDecisionHistory(decision_history, s, u, l)]
        /\ UNCHANGED <<now, auditVars, cacheVars, steps, input, chain_results, runOut, threads,
                     apiVars>>

HistoryNext == HistoryLogDecision \/ HistoryGet

InitHistory == InitOn({NotRun}, {"none"})

SpecHistory == InitHistory /\ [][HistoryNext]_vars

\* The stored decisions whose log_decision call was made with field = value.
LoggedWith(field, value) ==
    SelectSeq(decision_history,
              LAMBDA d : \E i \in 1..Len(written) :
                  /\ written[i].audit_id = d.audit_id
                  /\ written[i][field] = value)

\* The audit ids of a list of decisions, in order.
AuditIds(history) == [i \in 1..Len(history) |-> history[i].audit_id]

\* The first n elements.
FirstN(log, n) == IF Len(log) > n THEN SubSeq(log, 1, n) ELSE log

\* The last read saw the history as it is now.
JustRead == output # NotRun /\ output.at = calls

\* C24: a read filtered on a session returns exactly the decisions logged with
\* that session, and a read filtered on a user exactly those logged with that
\* user, in write order and up to the limit.
C24_HistoryBySession ==
    /\ (JustRead /\ output.session_id # None /\ output.user_id = None) =>
           AuditIds(output.ret) =
               FirstN(AuditIds(LoggedWith("session_id", output.session_id)), output.limit)
    /\ (JustRead /\ output.user_id # None /\ output.session_id = None) =>
           AuditIds(output.ret) =
               FirstN(AuditIds(LoggedWith("user_id", output.user_id)), output.limit)

\* What the code does: a filtered read returns nothing, an unfiltered read
\* the oldest `limit` stored decisions.
FilteredHistoryEmpty ==
    JustRead =>
        IF output.session_id # None \/ output.user_id # None
        THEN output.ret = <<>>
        ELSE AuditIds(output.ret) = FirstN(AuditIds(decision_history), output.limit)

-----------------------------------------------------------------------------
(***************************************************************************)
(* The evidence-based decision confidence.  A relevance score is written   *)
(* in hundredths and the confidence as the fraction num/den.               *)
(***************************************************************************)
Fraction(num, den) == [num |-> num, den |-> den]

\* a = b on fractions.
SameFraction(a, b) == a.num * b.den = b.num * a.den

\* sum(c['relevance_score'] for c in clauses if c['decision_impact'] in impacts)
RelevanceOf(clauses, impacts) ==
    SumSeq([i \in 1..Len(clauses) |->
               IF clauses[i].decision_impact \in impacts
               THEN clauses[i].relevance_score ELSE 0])

Impacts == {"positive", "negative", "neutral"}

\* min(confidence, 1.0)
AtMostOne(f) == IF f.num > f.den THEN Fraction(1, 1) ELSE f

\* EvidenceMapper._calculate_decision_confidence
CalculateDecisionConfidence(clauses, decision) ==
    IF clauses = <<>> THEN Fraction(0, 1)
    ELSE IF RelevanceOf(clauses, Impacts) = 0 THEN Fraction(1, 2)
    ELSE IF LowerText(decision) = "approved"
    THEN AtMostOne(Fraction(RelevanceOf(clauses, {"positive"}), RelevanceOf(clauses, Impacts)))
    ELSE IF LowerText(decision) = "rejected"
    THEN AtMostOne(Fraction(RelevanceOf(clauses, {"negative"}), RelevanceOf(clauses, Impacts)))
    ELSE AtMostOne(Fraction(1, 2))

-----------------------------------------------------------------------------
(***************************************************************************)
(* SpecConfidence: the confidence of any decision over at most             *)
(* MaxClauses mapped clauses.                                              *)
(***************************************************************************)
MaxClauses == 2

RelevanceScores == {0, 30, 100}
MappedClauses ==
    SeqsUpTo([decision_impact : Impacts, relevance_score : RelevanceScores], MaxClauses)
ConfidenceDecisions == {"Approved", "Rejected", "Unclear", "Unknown"}
ConfidenceInputs == [clauses : MappedClauses, decision : ConfidenceDecisions]

ConfidenceApply ==
    /\ output = NotRun
    /\ output' = [confidence |-> CalculateDecisionConfidence(input.clauses, input.decision)]
    /\ UNCHANGED <<input, chain_results, nonFn>>

ConfidenceNext == ConfidenceApply

InitConfidence == InitOn(ConfidenceInputs, {"none"})

SpecConfidence == InitConfidence /\ [][ConfidenceNext]_vars

\* The share of the relevance mass on the side of the decision.
ShareOfSide(clauses, decision) ==
    Fraction(RelevanceOf(clauses, IF LowerText(decision) = "approved"
                                  THEN {"positive"} ELSE {"negative"}),
             RelevanceOf(clauses, Impacts))

\* C26: the confidence is 0.5 when no clauses were found or the decision is
\* neither approved nor rejected; otherwise it is the share of the relevance
\* mass on the side of the decision; it always lies in [0,1].
C26_EvidenceConfidence ==
    output # NotRun =>
        /\ 0 <= output.confidence.num
        /\ output.confidence.num <= output.confidence.den
        /\ (input.clauses = <<>> \/ LowerText(input.decision) \notin {"approved", "rejected"})
               => SameFraction(output.confidence, Fraction(1, 2))
        /\ (input.clauses # <<>> /\ LowerText(input.decision) \in {"approved", "rejected"}
              /\ RelevanceOf(input.clauses, Impacts) > 0)
               => SameFraction(output.confidence, ShareOfSide(input.clauses, input.decision))

\* What the code does: the same, but for the confidence with no clauses,
\* which is 0 whatever the decision.
ConfidenceZeroWithoutClauses ==
    output # NotRun =>
        /\ 0 <= output.confidence.num
        /\ output.confidence.num <= output.confidence.den
        /\ input.clauses = <<>> => output.confidence.num = 0
        /\ (input.clauses # <<>> /\ LowerText(input.decision) \notin {"approved", "rejected"})
               => SameFraction(output.confidence, Fraction(1, 2))
        /\ (input.clauses # <<>> /\ LowerText(input.decision) \in {"approved", "rejected"}
              /\ RelevanceOf(input.clauses, Impacts) > 0)
               => SameFraction(output.confidence, ShareOfSide(input.clauses, input.decision))

-----------------------------------------------------------------------------
(***************************************************************************)
(* SpecTruncate: one audit write whose payload carries a text or an object *)
(* of any size, at the top level or inside a dict or a list.               *)
(***************************************************************************)
MarkerLen == 3         \* len("...")

TextSizes == {5, 150, 250}
Texts == {PStr("text", n) : n \in TextSizes} \cup {PObj("object", n) : n \in TextSizes}
TruncatePayloads ==
    Texts
      \cup {PDict(<< <<"note", v>> >>) : v \in Texts}
      \cup {PList(<<v>>) : v \in Texts}
      \cup {PDict(<< <<"data", PList(<<v>>)>> >>) : v \in Texts}
      \cup {PDict(<< <<"data", PDict(<< <<"note", v>> >>)>> >>) : v \in Texts}

InitTruncate == InitOn(TruncatePayloads, {"none"})

SpecTruncate == InitTruncate /\ [][SanitizeNext]_vars

\* The length of a stored text.
StoredLen(v) == IF v.t = "strof" THEN v.cut + (IF v.dots THEN MarkerLen ELSE 0) ELSE v.n

\* Every text of the stored value v is at most `limit` characters plus the
\* marker; the texts inside a container are held to the limit of an item.
RECURSIVE Bounded(_, _)
Bounded(v, limit) ==
    CASE v.t \in {"str", "strof"} -> StoredLen(v) <= limit + MarkerLen
      [] v.t = "dict" -> \A i \in 1..Len(v.items) : Bounded(v.items[i][2], ItemLimit)
      [] v.t = "list" -> \A i \in 1..Len(v.items) : Bounded(v.items[i], ItemLimit)
      [] OTHER -> TRUE

\* Every text of the stored value v that is longer than allowed is a plain
\* string of the payload, stored as it came.
RECURSIVE BoundedButPlain(_, _)
BoundedButPlain(v, limit) ==
    CASE v.t = "str" -> TRUE
      [] v.t = "strof" -> StoredLen(v) <= limit + MarkerLen
      [] v.t = "dict" -> \A i \in 1..Len(v.items) : BoundedButPlain(v.items[i][2], ItemLimit)
      [] v.t = "list" -> \A i \in 1..Len(v.items) : BoundedButPlain(v.items[i], ItemLimit)
      [] OTHER -> TRUE

\* C27: every text stored in an audit entry is size-bounded: a value longer
\* than the limit, a plain string inside the payload included, is stored cut
\* to the limit with the marker behind it.
C27_StoredValuesBounded ==
    \A log \in {audit_log, activity_log} : \A i \in 1..Len(log) :
        Bounded(Stored(log[i]), DataLimit)

\* What the code does: objects are stored as their cut text, a plain string
\* inside a dict or a list is stored whole.
ObjectsBounded ==
    \A log \in {audit_log, activity_log} : \A i \in 1..Len(log) :
        /\ BoundedButPlain(Stored(log[i]), DataLimit)
        /\ Stored(log[i]).t \in {"str", "strof"} =>
               StoredLen(Stored(log[i])) <= DataLimit + MarkerLen

-----------------------------------------------------------------------------
(***************************************************************************)
(* The API endpoints: rate limiting per client address.                    *)
(***************************************************************************)
rate_limit_enabled == TRUE
max_requests_per_minute == 2   \* api_config["max_requests_per_minute"], scaled down from 60
RateWindow == 60

\* (current_time - time).total_seconds() < 60
Recent(time, current_time) == current_time - time < RateWindow

\* request_counts with the addresses dropped whose last request is not recent.
CleanOldEntries(counts, current_time) ==
    [ip \in {i \in DOMAIN counts : Recent(counts[i][Len(counts[i])], current_time)} |->
        counts[ip]]

\* A variant of _check_rate_limit that compares with > : one request more gets in.
CheckRateLimitOneMore(counts, client_ip, current_time) ==
    LET cleaned == CleanOldEntries(counts, current_time)
        recent_requests == SelectSeq(cleaned[client_ip], LAMBDA time : Recent(time, current_time))
    IN IF ~rate_limit_enabled THEN [request_counts |-> counts, ret |-> TRUE]
       ELSE IF client_ip \in DOMAIN cleaned /\ Len(recent_requests) > max_requests_per_minute
       THEN [request_counts |-> cleaned, ret |-> FALSE]
       ELSE [request_counts |->
                [ip \in DOMAIN cleaned \cup {client_ip} |->
                    IF ip # client_ip THEN cleaned[ip]
                    ELSE IF ip \in DOMAIN cleaned THEN Append(recent_requests, current_time)
                    ELSE <<current_time>>],
             ret |-> TRUE]

\* APIEndpoints._check_rate_limit: request_counts after the call and what it returns.
CheckRateLimit(counts, client_ip, current_time) ==
    LET cleaned == CleanOldEntries(counts, current_time)
        recent_requests == SelectSeq(cleaned[client_ip], LAMBDA time : Recent(time, current_time))
    IN IF ~rate_limit_enabled THEN [request_counts |-> counts, ret |-> TRUE]
       ELSE IF client_ip \in DOMAIN cleaned /\ Len(recent_requests) >= max_requests_per_minute
       THEN [request_counts |-> cleaned, ret |-> FALSE]
       ELSE [request_counts |->
                [ip \in DOMAIN cleaned \cup {client_ip} |->
                    IF ip # client_ip THEN cleaned[ip]
                    ELSE IF ip \in DOMAIN cleaned THEN Append(recent_requests, current_time)
                    ELSE <<current_time>>],
             ret |-> TRUE]

-----------------------------------------------------------------------------
(***************************************************************************)
(* SpecApi: requests from two client addresses, with the clock moving      *)
(* between them.                                                           *)
(***************************************************************************)
MaxApiSteps == 7       \* requests and clock steps per behaviour

Clients == {"10.0.0.1", "10.0.0.2"}
ApiTickSteps == {1, 59, 60}

\* A request comes in on an endpoint: `if not self._check_rate_limit(request)`.
ApiRequest ==
    \E client_ip \in Clients :
        /\ steps < MaxApiSteps
        /\ steps' = steps + 1
        /\ request_counts' = CheckRateLimit(request_counts, client_ip, now).request_counts
        /\ apiRet' = [op |-> "check", client_ip |-> client_ip, at |-> now,
                      ret |-> CheckRateLimit(request_counts, client_ip, now).ret]
        /\ admitted' = IF CheckRateLimit(request_counts, client_ip, now).ret
                       THEN Append(admitted, [client_ip |-> client_ip, at |-> now])
                       ELSE admitted
        /\ UNCHANGED <<now, auditVars, cacheVars, fnVars, runOut, threads>>

ApiTick ==
    \E d \in ApiTickSteps :
        /\ steps < MaxApiSteps
        /\ steps' = steps + 1
        /\ Tick(d)
        /\ UNCHANGED <<auditVars, cacheVars, fnVars, runOut, threads, apiVars>>

ApiNext == ApiRequest \/ ApiTick

InitApi == InitOn({NotRun}, {"none"})

SpecApi == InitApi /\ [][ApiNext]_vars

\* The times of the requests admitted from one address, in order.
AdmittedTimes(client_ip) ==
    LET own == SelectSeq(admitted, LAMBDA r : r.client_ip = client_ip)
    IN [i \in 1..Len(own) |-> own[i].at]

\* How many of the times lie in the 60 seconds from `from` on.
InWindow(times, from) ==
    Cardinality({i \in 1..Len(times) : from <= times[i] /\ times[i] < from + RateWindow})

\* How many of the times lie less than 60 seconds before t.
RecentBefore(times, t) == Cardinality({i \in 1..Len(times) : Recent(times[i], t)})

\* s is the end of t.
IsSuffix(s, t) == Len(s) <= Len(t) /\ s = SubSeq(t, Len(t) - Len(s) + 1, Len(t))

\* The requests admitted before the last call.
AdmittedBefore ==
    IF apiRet.ret THEN SubSeq(admitted, 1, Len(admitted) - 1) ELSE admitted

\* C28: at most max_requests_per_minute requests of one address are admitted
\* in any 60 seconds; the times held for an address are those of its latest
\* admitted requests (a rejected request is not recorded); and a request is
\* admitted exactly when fewer than max_requests_per_minute admitted requests
\* of its own address lie in the last 60 seconds, whatever other addresses did.
C28_RateLimited ==
    /\ \A c \in Clients : \A i \in 1..Len(AdmittedTimes(c)) :
           InWindow(AdmittedTimes(c), AdmittedTimes(c)[i]) <= max_requests_per_minute
    /\ \A c \in DOMAIN request_counts :
           /\ IsSuffix(request_counts[c], AdmittedTimes(c))
           /\ \A i \in 1..Len(AdmittedTimes(c)) :
                  Recent(AdmittedTimes(c)[i], apiRet.at) =>
                      \E j \in 1..Len(request_counts[c]) :
                          request_counts[c][j] = AdmittedTimes(c)[i]
    /\ apiRet.op = "check" =>
           apiRet.ret =
               (RecentBefore([i \in 1..Len(SelectSeq(AdmittedBefore,
                                  LAMBDA r : r.client_ip = apiRet.client_ip)) |->
                                 SelectSeq(AdmittedBefore,
                                     LAMBDA r : r.client_ip = apiRet.client_ip)[i].at],
                             apiRet.at) < max_requests_per_minute)

\* An address was turned away while the other one had a request admitted
\* in the same 60 seconds, and had been admitted again after an earlier
\* window had passed.
C28_Witness ==
    /\ apiRet.op = "check"
    /\ ~apiRet.ret
    /\ Len(AdmittedTimes(apiRet.client_ip)) > max_requests_per_minute
    /\ \E c \in Clients \ {apiRet.client_ip} :
           RecentBefore(AdmittedTimes(c), apiRet.at) > 0

-----------------------------------------------------------------------------
(***************************************************************************)
(* The session trail a run leaves, on SpecPipeline.                        *)
(***************************************************************************)
\* self.session_trails.get(session_id, [])
TrailOf(session_id) ==
    IF session_id \in DOMAIN session_trails THEN session_trails[session_id] ELSE <<>>

\* The entry log_error writes for run's `except Exception`.
IsRunError(e) == e.action = "error_occurred" /\ e.payload.fields[1] = "qa_chain_error"

\* The trail holds a decision, a query_completed activity after it, and no
\* qa_chain_error entry.
EndsDecided(trail) ==
    /\ \E i, j \in 1..Len(trail) :
           i < j /\ trail[i].action = "decision_made" /\ trail[j].action = "query_completed"
    /\ \A i \in 1..Len(trail) : ~IsRunError(trail[i])

\* The trail holds a qa_chain_error entry and no decision.
EndsInError(trail) ==
    /\ \E i \in 1..Len(trail) : IsRunError(trail[i])
    /\ \A i \in 1..Len(trail) : trail[i].action # "decision_made"

\* The one run made so far has returned.
FirstRunDone == steps = 1 /\ runOut # NotRun

BlankQuestion(text) == \E q \in Questions : q.text = text /\ q.blank

\* What C29 asks of the trail of the run's session.
RunTrailed ==
    IF BlankQuestion(runOut.question)
    THEN /\ audit_log = <<>>
         /\ activity_log = <<>>
         /\ decision_history = <<>>
         /\ DOMAIN session_trails = {}
    ELSE /\ TrailOf(runOut.session_id) # <<>>
         /\ TrailOf(runOut.session_id)[1].action = "query_started"
         /\ EndsDecided(TrailOf(runOut.session_id)) \/ EndsInError(TrailOf(runOut.session_id))

\* C29: a run on a non-blank question writes query_started first and leaves
\* in the trail of its session either a decision followed by query_completed
\* and no qa_chain_error entry, or a qa_chain_error entry and no decision; a
\* run on a blank question writes nothing.
C29_RunTrail == FirstRunDone => RunTrailed

\* What the code does: the same for the runs whose audit writes succeed and
\* whose response can be dumped as JSON.
RunTrailWithoutLateFault ==
    (FirstRunDone /\ runOut.fault # "json" /\ ~runOut.audit_fails) => RunTrailed

-----------------------------------------------------------------------------
(***************************************************************************)
(* log_decision as one transaction, on SpecAudit.                          *)
(***************************************************************************)
\* The log holds the entry of the call that drew audit_id.
HasId(log, audit_id) == \E i \in 1..Len(log) : log[i].audit_id = audit_id

\* The last call was a log_decision.
DecisionLogged == auditRet.op = "log_decision"

\* The entry of the last call is in all three collections.
StoredEverywhere ==
    /\ HasId(audit_log, auditRet.audit_id)
    /\ HasId(decision_history, auditRet.audit_id)
    /\ HasId(TrailOf(auditRet.session_id), auditRet.audit_id)

\* The entry of the last call is in none of the collections.
StoredNowhere ==
    /\ ~HasId(audit_log, auditRet.audit_id)
    /\ ~HasId(decision_history, auditRet.audit_id)
    /\ \A s \in DOMAIN session_trails : ~HasId(session_trails[s], auditRet.audit_id)

\* C30: log_decision is all-or-nothing: it returns an audit id and the entry
\* is in audit_log, decision_history and the trail of its session, or it
\* returns None and none of the three holds the entry.
C30_DecisionAllOrNothing ==
    DecisionLogged =>
        IF auditRet.ret # NoneId THEN auditRet.ret = auditRet.audit_id /\ StoredEverywhere
        ELSE StoredNowhere

\* What the code does: a returned id means the entry is stored everywhere; a
\* failed call never reached the session trail.
ReturnedDecisionStored ==
    DecisionLogged =>
        IF auditRet.ret # NoneId THEN auditRet.ret = auditRet.audit_id /\ StoredEverywhere
        ELSE \A s \in DOMAIN session_trails : ~HasId(session_trails[s], auditRet.audit_id)

====
